---- MODULE Spec2Model ----
(***************************************************************************)
(* Model of the econet24 -> MQTT bridge (econet24-addon).                  *)
(*                                                                         *)
(* Text is modelled as a sequence of one-character strings so that         *)
(* slugify, the device slug and the unique_id are computed, not assumed.   *)
(* Sensor values are records [t, n]: t = "num" carries a number in         *)
(* hundredths (45.3 is 4530, the sentinel 999.0 is 99900), t = "null" is   *)
(* JSON null.                                                              *)
(***************************************************************************)
EXTENDS Integers, Sequences, FiniteSets, TLC

(***************************************************************************)
(* Bounds of the model.                                                    *)
(***************************************************************************)
\* the largest POLL_INTERVAL the model is started with; the smallest is 0,
\* for which range(self.poll_interval) is empty as for a negative one
MaxPollInterval == 2

\* how many failed discovery publishes of one key the model counts
MaxFailedCount == 2

\* the longest text given to slugify
MaxSlugLen == 3

\* the longest DEVICE_NAME setting built from NameChars
MaxNameLen == 2

(***************************************************************************)
(* Text helpers.                                                           *)
(***************************************************************************)
UpperChars == <<"A","B","C","D","E","F","G","H","I","J","K","L","M",
                "N","O","P","Q","R","S","T","U","V","W","X","Y","Z">>
LowerChars == <<"a","b","c","d","e","f","g","h","i","j","k","l","m",
                "n","o","p","q","r","s","t","u","v","w","x","y","z">>
DigitChars == <<"0","1","2","3","4","5","6","7","8","9">>

Range(s) == {s[i] : i \in DOMAIN s}

\* characters outside ASCII are written by their code point; these are the
\* ones the model uses that str.lower() changes: E acute to e acute, and the
\* Kelvin sign to the ASCII letter k
UnicodeLower == ("U+00C9" :> "U+00E9") @@ ("U+212A" :> "k")

\* str.lower() on one character
LowerChar(c) ==
    IF c \in Range(UpperChars)
    THEN LowerChars[CHOOSE i \in DOMAIN UpperChars : UpperChars[i] = c]
    ELSE IF c \in DOMAIN UnicodeLower THEN UnicodeLower[c]
    ELSE c

Lower(text) == [i \in DOMAIN text |-> LowerChar(text[i])]

WhitespaceChars == {" ", "\t", "\n"}

RECURSIVE LStrip(_, _)
LStrip(text, drop) ==
    IF text # <<>> /\ Head(text) \in drop THEN LStrip(Tail(text), drop) ELSE text

RECURSIVE RStrip(_, _)
RStrip(text, drop) ==
    IF text # <<>> /\ text[Len(text)] \in drop
    THEN RStrip(SubSeq(text, 1, Len(text) - 1), drop)
    ELSE text

\* str.strip(chars)
Strip(text, drop) == RStrip(LStrip(text, drop), drop)

\* re.sub(r'[class]+', '_', text): every maximal run of characters of the class
\* becomes one '_'. The class is `chars` (negated = FALSE) or its complement.
RECURSIVE SubRuns(_, _, _, _)
SubRuns(text, chars, negated, prevInRun) ==
    IF text = <<>> THEN <<>>
    ELSE IF (Head(text) \in chars) # negated
         THEN (IF prevInRun THEN <<>> ELSE <<"_">>)
              \o SubRuns(Tail(text), chars, negated, TRUE)
         ELSE <<Head(text)>> \o SubRuns(Tail(text), chars, negated, FALSE)

SlugAlnum == Range(LowerChars) \cup Range(DigitChars)

\* slugify without the final strip('_') of line 272
slugify_keeps_edges(text) ==
    LET lowered  == Strip(Lower(text), WhitespaceChars)
        replaced == SubRuns(lowered, SlugAlnum, TRUE, FALSE)
    IN  SubRuns(replaced, {"_"}, FALSE, FALSE)

\* slugify, lines 266-272 (generate_package.py has the same function)
slugify(text) ==
    LET lowered  == Strip(Lower(text), WhitespaceChars)
        replaced == SubRuns(lowered, SlugAlnum, TRUE, FALSE)
        squeezed == SubRuns(replaced, {"_"}, FALSE, FALSE)
    IN  Strip(squeezed, {"_"})

\* no call of slugify made yet
NoSlug == [calls |-> 0, once |-> << >>, twice |-> << >>]

Take(text, n) == SubSeq(text, 1, IF Len(text) < n THEN Len(text) ELSE n)

(***************************************************************************)
(* JSON values as the cloud returns them.                                  *)
(***************************************************************************)
Num(n) == [t |-> "num", n |-> n]
Null == [t |-> "null"]
Str(chars) == [t |-> "str", chars |-> chars]
Bool(b) == [t |-> "bool", b |-> b]
List(items) == [t |-> "list", items |-> items]
Obj(name, value) == [t |-> "obj", name |-> name, value |-> value]

\* 999.0 in hundredths: the firmware's "sensor not connected" value
Sentinel == 99900

\* Python's `value == 999.0`
IsSentinel(v) == v.t = "num" /\ v.n = Sentinel

\* Python's `value is None`
IsNone(v) == v.t = "null"

(***************************************************************************)
(* The sensor catalog: the entries of SENSOR_DEFINITIONS the model's       *)
(* payloads use and those of every name of the allow-list of the editable  *)
(* parameters, with the display names of the source.                       *)
(***************************************************************************)
SENSOR_DEFINITIONS ==
    "GrantOutgoingTemp" :> [name |-> <<"H","e","a","t"," ","P","u","m","p"," ","F","l","o","w"," ","T","e","m","p","e","r","a","t","u","r","e">>,
        icon |-> "mdi:thermometer"] @@
    "GrantReturnTemp" :> [name |-> <<"H","e","a","t"," ","P","u","m","p"," ","R","e","t","u","r","n"," ","T","e","m","p","e","r","a","t","u","r","e">>,
        icon |-> "mdi:thermometer"] @@
    "TempOutdoor" :> [name |-> <<"O","u","t","d","o","o","r"," ","T","e","m","p","e","r","a","t","u","r","e">>,
        icon |-> "mdi:thermometer"] @@
    "tempZewn" :> [name |-> <<"O","u","t","d","o","o","r"," ","T","e","m","p","e","r","a","t","u","r","e">>,
        icon |-> "mdi:thermometer"] @@
    "HDWTSetPoint" :> [name |-> <<"H","o","t"," ","W","a","t","e","r"," ","S","e","t","p","o","i","n","t">>,
        icon |-> "mdi:thermometer-check"] @@
    "BuforsetPoint" :> [name |-> <<"B","u","f","f","e","r"," ","S","e","t","p","o","i","n","t">>,
        icon |-> "mdi:thermometer-check"] @@
    "Circuit1ComfortTemp" :> [name |-> <<"C","i","r","c","u","i","t"," ","1"," ","C","o","m","f","o","r","t"," ","T","e","m","p","e","r","a","t","u","r","e">>,
        icon |-> "mdi:thermometer-check"] @@
    "Circuit1EcoTemp" :> [name |-> <<"C","i","r","c","u","i","t"," ","1"," ","E","c","o"," ","T","e","m","p","e","r","a","t","u","r","e">>,
        icon |-> "mdi:thermometer-check"] @@
    "Circuit1BaseTemp" :> [name |-> <<"C","i","r","c","u","i","t"," ","1"," ","B","a","s","e"," ","T","e","m","p","e","r","a","t","u","r","e">>,
        icon |-> "mdi:thermometer-check"] @@
    "Circuit1WorkState" :> [name |-> <<"C","i","r","c","u","i","t"," ","1"," ","W","o","r","k"," ","S","t","a","t","e">>,
        icon |-> "mdi:radiator"] @@
    "Circuit2ComfortTemp" :> [name |-> <<"C","i","r","c","u","i","t"," ","2"," ","C","o","m","f","o","r","t"," ","T","e","m","p","e","r","a","t","u","r","e">>,
        icon |-> "mdi:thermometer-check"] @@
    "Circuit2EcoTemp" :> [name |-> <<"C","i","r","c","u","i","t"," ","2"," ","E","c","o"," ","T","e","m","p","e","r","a","t","u","r","e">>,
        icon |-> "mdi:thermometer-check"] @@
    "Circuit2BaseTemp" :> [name |-> <<"C","i","r","c","u","i","t"," ","2"," ","B","a","s","e"," ","T","e","m","p","e","r","a","t","u","r","e">>,
        icon |-> "mdi:thermometer-check"] @@
    "Circuit2WorkState" :> [name |-> <<"C","i","r","c","u","i","t"," ","2"," ","W","o","r","k"," ","S","t","a","t","e">>,
        icon |-> "mdi:radiator"] @@
    "Circuit3ComfortTemp" :> [name |-> <<"C","i","r","c","u","i","t"," ","3"," ","C","o","m","f","o","r","t"," ","T","e","m","p","e","r","a","t","u","r","e">>,
        icon |-> "mdi:thermometer-check"] @@
    "Circuit3EcoTemp" :> [name |-> <<"C","i","r","c","u","i","t"," ","3"," ","E","c","o"," ","T","e","m","p","e","r","a","t","u","r","e">>,
        icon |-> "mdi:thermometer-check"] @@
    "Circuit3BaseTemp" :> [name |-> <<"C","i","r","c","u","i","t"," ","3"," ","B","a","s","e"," ","T","e","m","p","e","r","a","t","u","r","e">>,
        icon |-> "mdi:thermometer-check"] @@
    "Circuit3WorkState" :> [name |-> <<"C","i","r","c","u","i","t"," ","3"," ","W","o","r","k"," ","S","t","a","t","e">>,
        icon |-> "mdi:radiator"] @@
    "Circuit1CurveRadiator" :> [name |-> <<"C","i","r","c","u","i","t"," ","1"," ","H","e","a","t","i","n","g"," ","C","u","r","v","e">>,
        icon |-> "mdi:chart-line"] @@
    "Circuit2CurveFloor" :> [name |-> <<"C","i","r","c","u","i","t"," ","2"," ","H","e","a","t","i","n","g"," ","C","u","r","v","e">>,
        icon |-> "mdi:chart-line"] @@
    "HeatingCooling" :> [name |-> <<"H","e","a","t","i","n","g","/","C","o","o","l","i","n","g"," ","M","o","d","e">>,
        icon |-> "mdi:hvac"] @@
    "SummerOn" :> [name |-> <<"S","u","m","m","e","r"," ","M","o","d","e"," ","O","n"," ","T","e","m","p","e","r","a","t","u","r","e">>,
        icon |-> "mdi:weather-sunny"] @@
    "SummerOff" :> [name |-> <<"S","u","m","m","e","r"," ","M","o","d","e"," ","O","f","f"," ","T","e","m","p","e","r","a","t","u","r","e">>,
        icon |-> "mdi:weather-sunny"] @@
    "wifiQuality" :> [name |-> <<"W","i","F","i"," ","Q","u","a","l","i","t","y">>,
        icon |-> "mdi:wifi"] @@
    "wifiStrength" :> [name |-> <<"W","i","F","i"," ","S","i","g","n","a","l"," ","S","t","r","e","n","g","t","h">>,
        icon |-> "mdi:wifi"] @@
    "info_compressor_hz" :> [name |-> <<"C","o","m","p","r","e","s","s","o","r"," ","F","r","e","q","u","e","n","c","y">>,
        icon |-> "mdi:sine-wave"] @@
    "info_fan_rpm" :> [name |-> <<"F","a","n"," ","S","p","e","e","d">>,
        icon |-> "mdi:fan"] @@
    "info_flow_rate" :> [name |-> <<"C","u","r","r","e","n","t"," ","F","l","o","w"," ","R","a","t","e">>,
        icon |-> "mdi:water-pump"] @@
    "info_electrical_power" :> [name |-> <<"E","l","e","c","t","r","i","c","a","l"," ","P","o","w","e","r">>,
        icon |-> "mdi:flash"] @@
    "info_pump_rpm" :> [name |-> <<"C","i","r","c","u","l","a","t","i","o","n"," ","P","u","m","p"," ","S","p","e","e","d">>,
        icon |-> "mdi:pump"] @@
    "info_energy_wh" :> [name |-> <<"H","e","a","t"," ","E","n","e","r","g","y">>,
        icon |-> "mdi:lightning-bolt"] @@
    "info_hp_target_temp" :> [name |-> <<"H","e","a","t"," ","P","u","m","p"," ","T","a","r","g","e","t"," ","T","e","m","p","e","r","a","t","u","r","e">>,
        icon |-> "mdi:thermometer-check"] @@
    "info_hp_return_temp" :> [name |-> <<"H","e","a","t"," ","P","u","m","p"," ","R","e","t","u","r","n"," ","T","e","m","p","e","r","a","t","u","r","e">>,
        icon |-> "mdi:thermometer"] @@
    "info_cop" :> [name |-> <<"C","u","r","r","e","n","t"," ","C","O","P">>,
        icon |-> "mdi:chart-line"] @@
    "calc_delta_t" :> [name |-> <<"D","e","l","t","a"," ","T"," ","(","F","l","o","w"," ","-"," ","R","e","t","u","r","n",")">>,
        icon |-> "mdi:thermometer-lines"]

\* Sensor keys outside the catalog that the modelled cloud reports, as text
RawKeyChars ==
    "RawKey" :> <<"R","a","w","K","e","y">> @@
    "Raw#Key" :> <<"R","a","w","#","K","e","y">>

\* the generic definition built for a key that is not in the catalog
generic_def(key) == [name |-> RawKeyChars[key], icon |-> "mdi:information"]

INFORMATION_PARAMS_MAP ==
    "21"  :> "info_compressor_hz" @@
    "22"  :> "info_fan_rpm" @@
    "231" :> "info_flow_rate" @@
    "211" :> "info_electrical_power" @@
    "26"  :> "info_pump_rpm" @@
    "203" :> "info_energy_wh" @@
    "24"  :> "info_hp_target_temp" @@
    "25"  :> "info_hp_return_temp" @@
    "212" :> "info_cop"

wanted_editable ==
    {"HDWTSetPoint", "BuforsetPoint",
     "Circuit1ComfortTemp", "Circuit1EcoTemp", "Circuit1BaseTemp", "Circuit1WorkState",
     "Circuit2ComfortTemp", "Circuit2EcoTemp", "Circuit2BaseTemp", "Circuit2WorkState",
     "Circuit3ComfortTemp", "Circuit3EcoTemp", "Circuit3BaseTemp", "Circuit3WorkState",
     "Circuit1CurveRadiator", "Circuit2CurveFloor",
     "HeatingCooling", "SummerOn", "SummerOff"}

(***************************************************************************)
(* Devices of the account. A device identifier is longer than the eight    *)
(* characters the slug keeps.                                              *)
(***************************************************************************)
Devices == {"D1", "D2"}

DeviceUidChars ==
    "D1" :> <<"A","1","B","2","C","3","D","4","E","5">> @@
    "D2" :> <<"Z","9","Y","8","X","7","W","6","V","5">>

\* the device of the login redirect
RedirectDevice == "D1"

\* the DEVICE_NAME settings the model starts with (NoName: not configured)
NoName == <<>>
DeviceNames == {NoName, <<"H","e","a","t"," ","P","u","m","p">>}

(***************************************************************************)
(* What the cloud can answer.                                              *)
(***************************************************************************)
\* float(text) for the decimal strings the payloads carry: digits with an
\* optional sign and an optional fraction of one or two digits give a number
\* in hundredths;
\* anything else makes float() raise ValueError (result "fail").
DigitValue(c) == (CHOOSE i \in DOMAIN DigitChars : DigitChars[i] = c) - 1

RECURSIVE DigitsValue(_)
DigitsValue(chars) ==
    IF chars = <<>> THEN 0
    ELSE 10 * DigitsValue(SubSeq(chars, 1, Len(chars) - 1))
         + DigitValue(chars[Len(chars)])

AllDigits(chars) == chars # <<>> /\ \A i \in DOMAIN chars : chars[i] \in Range(DigitChars)

ParseFloat(chars) ==
    LET neg  == chars # <<>> /\ Head(chars) = "-"
        body == IF neg THEN Tail(chars) ELSE chars
        dots == {i \in DOMAIN body : body[i] = "."}
        sign == IF neg THEN -1 ELSE 1
    IN  IF dots = {}
        THEN IF AllDigits(body)
             THEN [ok |-> TRUE, n |-> sign * 100 * DigitsValue(body)]
             ELSE [ok |-> FALSE, n |-> 0]
        ELSE LET dot  == CHOOSE i \in dots : TRUE
                 int  == SubSeq(body, 1, dot - 1)
                 frac == SubSeq(body, dot + 1, Len(body))
             IN  IF AllDigits(int) /\ AllDigits(frac) /\ Len(frac) \in {1, 2}
                 THEN [ok |-> TRUE,
                       n  |-> sign * (100 * DigitsValue(int)
                                      + (IF Len(frac) = 1 THEN 10 ELSE 1) * DigitsValue(frac))]
                 ELSE [ok |-> FALSE, n |-> 0]

\* One reading of a payload: a key and its JSON value
Item(k, v) == [k |-> k, v |-> v]

\* getDeviceParams documents: `curr` in the payload's order, and the top-level
\* fields among wifiQuality / wifiStrength that are present.
PrimaryPayload ==
    "P1" :> [curr   |-> << Item("GrantOutgoingTemp", Num(4530)),
                           Item("GrantReturnTemp", Num(3870)),
                           Item("TempOutdoor", Num(500)),
                           Item("RawKey", Num(100)) >>,
             fields |-> ("wifiQuality" :> Num(8000))] @@
    "P2" :> [curr   |-> << Item("GrantOutgoingTemp", Num(Sentinel)),
                           Item("GrantReturnTemp", Null),
                           Item("tempZewn", Num(600)),
                           Item("RawKey", Num(100)) >>,
             fields |-> ("wifiQuality" :> Num(Sentinel))] @@
    "P3" :> [curr   |-> << Item("Raw#Key", Num(100)),
                           Item("TempOutdoor", Num(700)) >>,
             fields |-> << >>] @@
    "P4" :> [curr   |-> << Item("GrantReturnTemp", Num(3870)),
                           Item("GrantOutgoingTemp", Num(4537)) >>,
             fields |-> << >>]

\* getDeviceEditableParams documents: `data` and `informationParams` in order
EditablePayload ==
    "E1" :> [data |-> << Item("1", Obj("HDWTSetPoint", Num(4800))),
                         Item("2", Obj("OtherParam", Num(50))),
                         Item("3", Obj("TempOutdoor", Num(500))),
                         Item("4", Obj("SummerOff", Null)),
                         Item("5", Obj("SummerOn", Num(2200))) >>,
             info |-> << Item("21", List(<< Bool(TRUE),
                              List(<< List(<< Str(<<"5","5",".","2">>), Num(0) >>) >>) >>)) >>] @@
    "E2" :> [data |-> << Item("1", Obj("HDWTSetPoint", Num(Sentinel))) >>,
             info |-> << Item("21", List(<< Bool(TRUE),
                              List(<< List(<< Str(<<"9","9","9",".","0">>), Num(0) >>) >>) >>)),
                         Item("22", List(<< Bool(TRUE),
                              List(<< List(<< Num(120000), Num(0) >>) >>),
                              Num(700) >>)) >>] @@
    "E3" :> [data |-> << Item("1", Obj("HDWTSetPoint", Null)) >>,
             info |-> << Item("21",  List(<< Bool(FALSE),
                              List(<< List(<< Str(<<"5","5",".","2">>), Num(0) >>) >>) >>)),
                         Item("22",  Str(<<"x">>)),
                         Item("24",  List(<< Bool(TRUE) >>)),
                         Item("25",  List(<< Bool(TRUE), List(<< >>) >>)),
                         Item("26",  List(<< Bool(TRUE), List(<< List(<< >>) >>) >>)),
                         Item("203", List(<< Bool(TRUE), Num(500) >>)),
                         Item("211", List(<< Num(100), List(<< Num(500) >>) >>)),
                         Item("99",  List(<< Bool(TRUE),
                              List(<< List(<< Str(<<"1",".","5">>), Num(0) >>) >>) >>)),
                         Item("212", List(<< Num(100),
                              List(<< List(<< Str(<<"a","b","c">>), Num(0) >>) >>) >>)),
                         Item("231", List(<< Bool(TRUE),
                              List(<< List(<< Num(1250), Num(0) >>) >>) >>)) >>] @@
    "E4" :> [data |-> << Item("1", Str(<<"x">>)),
                         Item("2", Obj("HDWTSetPoint", Num(4800))) >>,
             info |-> << Item("21", List(<< Bool(TRUE),
                              List(<< List(<< Str(<<"5","5",".","2">>), Num(0) >>) >>) >>)) >>]

PayloadIds == DOMAIN PrimaryPayload
EditableIds == DOMAIN EditablePayload

\* How a primary fetch can fail after the local session check has passed:
\* an authorization-rejected status (raise_for_status), a transport error,
\* a body that is not the expected JSON.
PrimaryFailures == {"http_auth", "transport", "malformed"}

\* How the secondary fetch can fail: session-expired, any other exception,
\* a payload of the wrong shape.
SecondaryFailures == {"raise_session", "raise_other", "wrong_shape"}

\* The exception each failure surfaces as
FailureException(f) ==
    CASE f = "http_auth"     -> "HTTPError"
      [] f = "transport"     -> "ConnectionError"
      [] f = "malformed"     -> "ValueError"
      [] f = "raise_session" -> "SessionExpiredError"
      [] f = "raise_other"   -> "HTTPError"
      [] f = "wrong_shape"   -> "AttributeError"

\* class Econet24Error and its subclasses
Econet24Errors == {"Econet24Error", "LoginError", "SessionExpiredError"}

(***************************************************************************)
(* The environment main() reads. os.environ.get returns None for a         *)
(* variable that is not set (set = FALSE) and its text otherwise.          *)
(***************************************************************************)
EnvValue(chars) == [set |-> TRUE, chars |-> chars]

EnvUnset == [set |-> FALSE, chars |-> << >>]

EnvValues == {EnvUnset, EnvValue(<< >>), EnvValue(<<"u">>)}

\* a test of line 662 that asks `is None` where the code asks `not`
missing_only_unset(value) == ~value.set

\* `not value` for what os.environ.get returned
Missing(value) == ~value.set \/ value.chars = << >>

\* the DEVICE_NAME settings the bridge and the package generator are
\* compared on: not set, every text of up to MaxNameLen characters over a
\* letter, a blank, a punctuation mark and a digit, and some longer ones
NameChars == {"A", " ", "!", "1"}

NameSettings ==
    {EnvUnset}
    \cup {EnvValue(t) : t \in UNION {[1..n -> NameChars] : n \in 0..MaxNameLen}}
    \cup {EnvValue(<<"H","e","a","t"," ","P","u","m","p">>),
          EnvValue(<<" ","H","P"," ","-"," ","1"," ">>),
          EnvValue(<<"\t","_","a","_","\n">>),
          EnvValue(<<" ","-","-"," ">>),
          EnvValue(<<"U+00C9">>)}

\* os.environ.get(name, "").strip()
EnvStripped(value) == Strip(IF value.set THEN value.chars ELSE << >>, WhitespaceChars)

\* the bridge's main(), line 660: DEVICE_NAME stripped, or None
main_device_name(value) ==
    IF EnvStripped(value) = << >> THEN NoName ELSE EnvStripped(value)

(***************************************************************************)
(* The accounts the model runs against. "multi" is an account with two     *)
(* devices whose cloud answers with one primary payload, with two editable *)
(* payloads (an information parameter visible in one, hidden in the other) *)
(* and with every failure; "single" is an account with one device whose    *)
(* cloud answers with every payload.                                       *)
(***************************************************************************)
Accounts == {"single", "multi"}

\* what the account's user-devices endpoint lists
AccountDevices(acct) == IF acct = "multi" THEN <<"D1", "D2">> ELSE <<"D1">>

AccountPayloads(acct) == IF acct = "multi" THEN {"P1"} ELSE PayloadIds

AccountEditables(acct) == IF acct = "multi" THEN {"E1", "E3"} ELSE EditableIds

(***************************************************************************)
(* The repository holds the bridge twice: the add-on's                     *)
(* (econet24-addon/econet24_mqtt_bridge.py) and the standalone script      *)
(* (econet24_mqtt_bridge.py), whose poll cycle ends after the current      *)
(* values. A bridge instance runs one of them.                             *)
(***************************************************************************)
Variants == {"addon", "standalone"}

(***************************************************************************)
(* Econet24Client                                                          *)
(***************************************************************************)
NoClient == [t |-> "None"]

\* Econet24Client.__init__
NewClient == [t |-> "Econet24Client", logged_in |-> FALSE, cookies |-> {},
              devices |-> <<>>]

SessionCookieNames == {"_mlmsc", "_mlmlc", "sessionid"}

\* Econet24Client._ensure_logged_in: TRUE when it returns, FALSE when it
\* raises SessionExpiredError
SessionCheckPasses(client) ==
    /\ client.logged_in
    /\ client.cookies \cap SessionCookieNames # {}

(***************************************************************************)
(* The data-fetch operations of the client, called with a device (or with  *)
(* NoUid for uid=None) while the cloud answers every request of the call   *)
(* the same way: "ok" (200 with a JSON document), "empty" (200 with an     *)
(* empty document), "http_error" (a 4xx or 5xx status), "unreachable".     *)
(* The result is the exception raised and the number of requests sent.     *)
(***************************************************************************)
FetchOps == {"get_devices", "get_user_devices", "get_device_info",
             "get_device_params", "get_history"}

FetchAnswers == {"ok", "empty", "http_error", "unreachable"}

NoUid == "None"

NoFetch == [op |-> "none", exc |-> "none", requests |-> 0]

\* no call of login() on its own made yet
NoLogin == [calls |-> 0]

\* nothing computed from DEVICE_NAME yet
NoPrefix == [calls |-> 0]

\* self._get(...) followed by response.raise_for_status()
one_request(op, answer) ==
    [op |-> op, requests |-> 1,
     exc |-> CASE answer = "unreachable" -> "ConnectionError"
               [] answer = "http_error"  -> "HTTPError"
               [] OTHER                  -> "none"]

\* the operations after their call of _ensure_logged_in
data_fetch_unchecked(client, op, uid, answer) ==
    IF op \in {"get_devices", "get_user_devices"} THEN one_request(op, answer)
    ELSE IF uid = NoUid /\ client.devices = << >>
    THEN [op |-> op, exc |-> "Econet24Error", requests |-> 0]
    ELSE IF op = "get_device_info"
    THEN [op |-> op, exc |-> "none", requests |-> IF answer = "ok" THEN 1 ELSE 3]
    ELSE one_request(op, answer)

\* get_history without line 320
data_fetch_history_unguarded(client, op, uid, answer) ==
    IF ~SessionCheckPasses(client) /\ op # "get_history"
    THEN [op |-> op, exc |-> "SessionExpiredError", requests |-> 0]
    ELSE data_fetch_unchecked(client, op, uid, answer)

\* get_devices, get_user_devices, get_device_info, get_device_params and
\* get_history: each begins with self._ensure_logged_in()
data_fetch(client, op, uid, answer) ==
    IF ~SessionCheckPasses(client)
    THEN [op |-> op, exc |-> "SessionExpiredError", requests |-> 0]
    ELSE data_fetch_unchecked(client, op, uid, answer)

(***************************************************************************)
(* What the cloud answers to one login: how the exchange ends (kind), the  *)
(* session cookies the responses set, and what the user-devices endpoint   *)
(* returns ("fail": the request fails).                                    *)
(***************************************************************************)
LoginAnswer(kind, cookies, user_devices) ==
    [kind |-> kind, cookies |-> cookies, user_devices |-> user_devices]

LoginAnswers ==
    {LoginAnswer(k, {}, "fail") : k \in {"unreachable", "no_csrf", "rejected"}}
    \cup {LoginAnswer(k, c, u) : k \in {"redirect", "no_redirect"},
                                 c \in {{}, {"_mlmsc"}, {"sessionid"}},
                                 u \in {"fail", "empty", "list"}}

\* The user-devices endpoint can also answer {"devices": 5}: "number". The
\* device list of a client is a sequence of device identifiers; the number
\* stored in its place is written as this sequence.
NotAList == <<"5 (a number, not a list)">>

\* the answers to a login whose user-devices document carries a number
OddLoginAnswers ==
    {LoginAnswer(k, c, "number") : k \in {"redirect", "no_redirect"},
                                   c \in {{}, {"_mlmsc"}, {"sessionid"}}}

\* Econet24Client.get_user_devices as login() calls it: whether it returns, and
\* the list it returns
get_user_devices(client, answer, acct) ==
    IF ~SessionCheckPasses(client) \/ answer.user_devices = "fail"
    THEN [ok |-> FALSE, list |-> <<>>]
    ELSE [ok |-> TRUE,
          list |-> CASE answer.user_devices = "list"   -> AccountDevices(acct)
                     [] answer.user_devices = "number" -> NotAList
                     [] OTHER                          -> <<>>]

\* login() without the test of line 159: the list of the user-devices
\* endpoint replaces the cached one even when it is empty
login_takes_empty_list(client, answer, acct) ==
    LET jar == client.cookies \cup answer.cookies
    IN  CASE answer.kind = "unreachable" ->
               [client |-> client, exc |-> "ConnectionError"]
          [] answer.kind = "no_csrf" ->
               [client |-> client, exc |-> "LoginError"]
          [] answer.kind = "rejected" ->
               [client |-> [client EXCEPT !.cookies = jar], exc |-> "LoginError"]
          [] OTHER ->
               LET matched == answer.kind = "redirect"
                   verified == matched \/ jar \cap {"_mlmsc", "_mlmlc"} # {}
                   c1 == [client EXCEPT
                            !.cookies = jar,
                            !.logged_in = IF verified THEN TRUE ELSE @,
                            !.devices = IF matched THEN <<RedirectDevice>> ELSE @]
                   listed == get_user_devices(c1, answer, acct)
                   c2 == IF listed.ok
                         THEN [c1 EXCEPT !.devices = listed.list]
                         ELSE c1
               IN  IF ~verified
                   THEN [client |-> c1, exc |-> "LoginError"]
                   ELSE [client |-> c2,
                         exc |-> IF c2.devices = NotAList THEN "TypeError" ELSE "none"]

\* Econet24Client.login: the client afterwards and the exception raised
\* (line 165 takes len() of the device list, which raises for a number)
login(client, answer, acct) ==
    LET jar == client.cookies \cup answer.cookies
    IN  CASE answer.kind = "unreachable" ->
               [client |-> client, exc |-> "ConnectionError"]
          [] answer.kind = "no_csrf" ->
               [client |-> client, exc |-> "LoginError"]
          [] answer.kind = "rejected" ->
               [client |-> [client EXCEPT !.cookies = jar], exc |-> "LoginError"]
          [] OTHER ->
               LET matched == answer.kind = "redirect"
                   verified == matched \/ jar \cap {"_mlmsc", "_mlmlc"} # {}
                   c1 == [client EXCEPT
                            !.cookies = jar,
                            !.logged_in = IF verified THEN TRUE ELSE @,
                            !.devices = IF matched THEN <<RedirectDevice>> ELSE @]
                   listed == get_user_devices(c1, answer, acct)
                   c2 == IF listed.ok /\ listed.list # <<>>
                         THEN [c1 EXCEPT !.devices = listed.list]
                         ELSE c1
               IN  IF ~verified
                   THEN [client |-> c1, exc |-> "LoginError"]
                   ELSE [client |-> c2,
                         exc |-> IF c2.devices = NotAList THEN "TypeError" ELSE "none"]

(***************************************************************************)
(* Econet24MQTTBridge: the state a poll cycle reads and writes, gathered   *)
(* in one record so that the cycle's code can be followed call by call.    *)
(*   client      self.econet_client                                        *)
(*   published   self._discovery_published                                *)
(*   name_map    self._device_name_map                                     *)
(*   device_name self.device_name (NoName: None)                           *)
(*   account     the account the credentials belong to                     *)
(*   exc         the exception now propagating ("none": none)              *)
(* and the record of what was sent to the bus and asked of the cloud:      *)
(*   docs        the discovery documents published, [topic, device, key]   *)
(*               with state_topic {topic_prefix}/device/key                *)
(*   orphans     the (device, key) whose value was published while no      *)
(*               discovery document with that state_topic had been         *)
(*   republished the sensor keys whose discovery was published again       *)
(*   sentinels   the [path, what] of publishes made for a 999.0 reading    *)
(*   hidden      the (device, sensor key) of the information parameters    *)
(*               that arrived with a falsy visibility flag                 *)
(*   cyc         what the current cycle has done so far: the device list   *)
(*               it iterates, per device the outcome of the primary and    *)
(*               of the secondary fetch ("not_called", the failure, or the *)
(*               payload returned), the (device, key) whose value it       *)
(*               published, where exceptions were raised ("primary",       *)
(*               "secondary": the fetches, "shape": a payload of the wrong *)
(*               shape, "publish", "relogin"), the calls of _setup_econet  *)
(*               it made, whether                                          *)
(*               the last of them raised, the except clause that ran, and  *)
(*               log: the messages it handed to the bus, in emission order,*)
(*               and info_seen: the (device, key) of the entries of        *)
(*               informationParams the loop over them has taken up         *)
(***************************************************************************)
NewCycle ==
    [devices   |-> <<>>,
     primary   |-> [d \in Devices |-> "not_called"],
     secondary |-> [d \in Devices |-> "not_called"],
     values    |-> {},
     raised    |-> {},
     relogins  |-> 0,
     relogin_failed |-> FALSE,
     handler   |-> "none",
     log       |-> <<>>,
     info_seen |-> {},
     observed  |-> {},
     attempted |-> {},
     failed    |-> {}]

(***************************************************************************)
(* A statement runs on the state its predecessors left. The operators      *)
(* below take that state as `before` and compute it once, as b:            *)
(*     CHOOSE after \in {<what the code does to b> : b \in {before}} : TRUE *)
(***************************************************************************)

\* slugify and device_uid[:8].lower() on the texts the model uses, computed once
SlugTexts ==
    {SENSOR_DEFINITIONS[k].name : k \in DOMAIN SENSOR_DEFINITIONS}
    \cup {RawKeyChars[k] : k \in DOMAIN RawKeyChars}
    \cup (DeviceNames \ {NoName})
    \cup {EnvStripped(v) : v \in NameSettings}

Slugified == [text \in SlugTexts |-> slugify(text)]

UidPrefix == [d \in Devices |-> Lower(Take(DeviceUidChars[d], 8))]

\* f"econet24_{device_slug}_{sensor_slug}"
UniqueIdPrefix == <<"e","c","o","n","e","t","2","4","_">>

\* _get_device_slug telling apart the devices that share a slug: the slug
\* of a device depends on the devices that were given theirs before it
get_device_slug_by_arrival(b, device_uid) ==
    IF device_uid \in DOMAIN b.name_map THEN b.name_map[device_uid]
    ELSE LET slug == IF b.device_name # NoName THEN Slugified[b.device_name]
                     ELSE UidPrefix[device_uid]
         IN  IF \E other \in DOMAIN b.name_map : b.name_map[other] = slug
             THEN slug \o <<"_", "2">>
             ELSE slug

\* Econet24MQTTBridge._get_device_slug: the slug returned
_get_device_slug(b, device_uid) ==
    IF device_uid \in DOMAIN b.name_map THEN b.name_map[device_uid]
    ELSE IF b.device_name # NoName THEN Slugified[b.device_name]
    ELSE UidPrefix[device_uid]

\* the generator's main() without the strip() of line 503
generate_device_prefix_unstripped(name_value, uid_value) ==
    LET device_name_text == IF name_value.set THEN name_value.chars ELSE << >>
        device_uid  == EnvStripped(uid_value)
    IN  IF device_name_text # << >>
        THEN [ok |-> TRUE, prefix |-> slugify(device_name_text)]
        ELSE IF device_uid # << >>
        THEN [ok |-> TRUE, prefix |-> Lower(Take(device_uid, 8))]
        ELSE [ok |-> FALSE, prefix |-> << >>]

\* generate_package.main(), lines 503-521: the device prefix it computes
\* from DEVICE_NAME and DEVICE_UID, or none (ok = FALSE) when both are empty
generate_device_prefix(name_value, uid_value) ==
    LET device_name_text == EnvStripped(name_value)
        device_uid  == EnvStripped(uid_value)
    IN  IF device_name_text # << >>
        THEN [ok |-> TRUE, prefix |-> slugify(device_name_text)]
        ELSE IF device_uid # << >>
        THEN [ok |-> TRUE, prefix |-> Lower(Take(device_uid, 8))]
        ELSE [ok |-> FALSE, prefix |-> << >>]

\* paho's publish() raises ValueError for a topic that holds a wildcard
TopicHasWildcard(chars) == \E i \in DOMAIN chars : chars[i] \in {"#", "+"}

KeyChars(key) == IF key \in DOMAIN RawKeyChars THEN RawKeyChars[key] ELSE <<>>

\* the defaults of topic_prefix and ha_discovery_prefix
topic_prefix == "econet24"
ha_discovery_prefix == "homeassistant"

\* the discovery prefixes a bridge is constructed with, and their characters
DiscoveryPrefixes == {"homeassistant", "homeassistant/#"}

DiscoveryPrefixChars ==
    "homeassistant" :> <<"h","o","m","e","a","s","s","i","s","t","a","n","t">> @@
    "homeassistant/#" :> <<"h","o","m","e","a","s","s","i","s","t","a","n","t","/","#">>

\* f"{self.topic_prefix}/{device_uid}/{sensor_key}", by its segments
ValueTopic(prefix, device_uid, sensor_key) ==
    [prefix |-> prefix, device |-> device_uid, key |-> sensor_key]

\* f"{self.ha_discovery_prefix}/sensor/{unique_id}/config", by its segments
DiscoveryTopic(prefix, unique_id) ==
    [prefix |-> prefix, component |-> "sensor", unique_id |-> unique_id,
     leaf |-> "config"]

\* a discovery document handed to the bus: its topic and the fields of
\* `config`, with the reading (path, value) the call was made for
DiscoveryMessage(topic, unique_id, state_topic, sensor_def, device_uid, sensor_key, path, value) ==
    [what |-> "discovery", topic |-> topic, unique_id |-> unique_id,
     state_topic |-> state_topic, name |-> sensor_def.name, icon |-> sensor_def.icon,
     device |-> device_uid, key |-> sensor_key, path |-> path, value |-> value]

\* a value handed to the bus
ValueMessage(topic, device_uid, sensor_key, path, value) ==
    [what |-> "value", topic |-> topic, device |-> device_uid, key |-> sensor_key,
     path |-> path, value |-> value]

\* how many discovery publishes of sensor_key have raised so far
FailedCount(failed, sensor_key) ==
    IF sensor_key \in DOMAIN failed THEN failed[sensor_key] ELSE 0

\* the publish of line 429 raising with line 435 moved above the publish:
\* the key is in the dedup set already
discovery_publish_raises_marked(b, device_uid, device_slug, sensor_key) ==
    [b EXCEPT !.exc = "ValueError",
              !.cyc.raised = @ \cup {"publish"},
              !.cyc.observed = @ \cup {sensor_key},
              !.cyc.attempted = @ \cup {sensor_key},
              !.cyc.failed = @ \cup {sensor_key},
              !.name_map = (device_uid :> device_slug) @@ @,
              !.failed = (sensor_key :> IF FailedCount(b.failed, sensor_key) < MaxFailedCount
                                        THEN FailedCount(b.failed, sensor_key) + 1
                                        ELSE MaxFailedCount) @@ @,
              !.published = @ \cup {sensor_key}]

\* lines 394-433 when the publish of line 429 raises (the library refuses a
\* topic with a wildcard): the slug is cached already (line 398), line 435
\* is not reached, and the exception leaves _publish_ha_discovery
discovery_publish_raises(b, device_uid, device_slug, sensor_key) ==
    [b EXCEPT !.exc = "ValueError",
              !.cyc.raised = @ \cup {"publish"},
              !.cyc.observed = @ \cup {sensor_key},
              !.cyc.attempted = @ \cup {sensor_key},
              !.cyc.failed = @ \cup {sensor_key},
              !.name_map = (device_uid :> device_slug) @@ @,
              !.failed = (sensor_key :> IF FailedCount(b.failed, sensor_key) < MaxFailedCount
                                        THEN FailedCount(b.failed, sensor_key) + 1
                                        ELSE MaxFailedCount) @@ @]

\* _publish_ha_discovery without line 435: the key is never added to the
\* dedup set
publish_ha_discovery_never_marks(before, device_uid, sensor_key, sensor_def, path, value) ==
    CHOOSE after \in {
        IF b.exc # "none" THEN b
        ELSE IF sensor_key \in b.published
        THEN [b EXCEPT !.cyc.observed = @ \cup {sensor_key}]
        ELSE LET device_slug == _get_device_slug(b, device_uid)
                 unique_id   == UniqueIdPrefix \o device_slug \o <<"_">>
                                \o Slugified[sensor_def.name]
             IN  IF TopicHasWildcard(DiscoveryPrefixChars[b.discovery_prefix])
                 THEN discovery_publish_raises(b, device_uid, device_slug, sensor_key)
                 ELSE
                 [b EXCEPT
                    !.cyc.observed = @ \cup {sensor_key},
                    !.cyc.attempted = @ \cup {sensor_key},
                    !.name_map  = (device_uid :> device_slug) @@ @,
                    !.republished = IF \E doc \in b.docs : doc.key = sensor_key
                                    THEN @ \cup {sensor_key} ELSE @,
                    !.docs      = @ \cup {[topic |-> unique_id, device |-> device_uid,
                                           key |-> sensor_key]},
                    !.cyc.log   = Append(@, DiscoveryMessage(
                                      DiscoveryTopic(b.discovery_prefix, unique_id),
                                      unique_id,
                                      ValueTopic(topic_prefix, device_uid, sensor_key),
                                      sensor_def, device_uid, sensor_key, path, value))]
      : b \in {before}} : TRUE

\* _publish_ha_discovery with line 401 building state_topic under the
\* discovery prefix
publish_ha_discovery_wrong_state_topic(before, device_uid, sensor_key, sensor_def, path, value) ==
    CHOOSE after \in {
        IF b.exc # "none" THEN b
        ELSE IF sensor_key \in b.published
        THEN [b EXCEPT !.cyc.observed = @ \cup {sensor_key}]
        ELSE LET device_slug == _get_device_slug(b, device_uid)
                 unique_id   == UniqueIdPrefix \o device_slug \o <<"_">>
                                \o Slugified[sensor_def.name]
             IN  IF TopicHasWildcard(DiscoveryPrefixChars[b.discovery_prefix])
                 THEN discovery_publish_raises(b, device_uid, device_slug, sensor_key)
                 ELSE
                 [b EXCEPT
                    !.cyc.observed = @ \cup {sensor_key},
                    !.cyc.attempted = @ \cup {sensor_key},
                    !.name_map  = (device_uid :> device_slug) @@ @,
                    !.republished = IF \E doc \in b.docs : doc.key = sensor_key
                                    THEN @ \cup {sensor_key} ELSE @,
                    !.docs      = @ \cup {[topic |-> unique_id, device |-> device_uid,
                                           key |-> sensor_key]},
                    !.sentinels = IF IsSentinel(value)
                                  THEN @ \cup {[path |-> path, what |-> "discovery"]}
                                  ELSE @,
                    !.cyc.log   = Append(@, DiscoveryMessage(
                                      DiscoveryTopic(b.discovery_prefix, unique_id),
                                      unique_id,
                                      ValueTopic(b.discovery_prefix, device_uid, sensor_key),
                                      sensor_def, device_uid, sensor_key, path, value)),
                    !.published = @ \cup {sensor_key}]
      : b \in {before}} : TRUE

\* Econet24MQTTBridge._publish_ha_discovery, called for the reading `value`
\* that arrived on `path`
_publish_ha_discovery(before, device_uid, sensor_key, sensor_def, path, value) ==
    CHOOSE after \in {
        IF b.exc # "none" THEN b
        ELSE IF sensor_key \in b.published
        THEN [b EXCEPT !.cyc.observed = @ \cup {sensor_key}]
        ELSE LET device_slug == _get_device_slug(b, device_uid)
                 sensor_slug == Slugified[sensor_def.name]
                 unique_id   == UniqueIdPrefix \o device_slug \o <<"_">> \o sensor_slug
                 state_topic == ValueTopic(topic_prefix, device_uid, sensor_key)
                 discovery_topic == DiscoveryTopic(b.discovery_prefix, unique_id)
             IN  IF TopicHasWildcard(DiscoveryPrefixChars[b.discovery_prefix])
                 THEN discovery_publish_raises(b, device_uid, device_slug, sensor_key)
                 ELSE
                 [b EXCEPT
                    !.cyc.observed = @ \cup {sensor_key},
                    !.cyc.attempted = @ \cup {sensor_key},
                    !.name_map  = (device_uid :> device_slug) @@ @,
                    !.republished = IF \E doc \in b.docs : doc.key = sensor_key
                                    THEN @ \cup {sensor_key} ELSE @,
                    !.docs      = @ \cup {[topic |-> unique_id, device |-> device_uid,
                                           key |-> sensor_key]},
                    !.sentinels = IF IsSentinel(value)
                                  THEN @ \cup {[path |-> path, what |-> "discovery"]}
                                  ELSE @,
                    !.cyc.log   = Append(@, DiscoveryMessage(discovery_topic, unique_id,
                                      state_topic, sensor_def, device_uid, sensor_key,
                                      path, value)),
                    !.published = @ \cup {sensor_key}]
      : b \in {before}} : TRUE

\* Econet24MQTTBridge._publish_sensor_value
_publish_sensor_value(before, device_uid, sensor_key, path, value) ==
    CHOOSE after \in {
        IF b.exc # "none" THEN b
        ELSE IF TopicHasWildcard(KeyChars(sensor_key))
        THEN [b EXCEPT !.exc = "ValueError", !.cyc.raised = @ \cup {"publish"}]
        ELSE [b EXCEPT
                !.orphans    = IF \E doc \in b.docs :
                                     doc.device = device_uid /\ doc.key = sensor_key
                               THEN @ ELSE @ \cup {<<device_uid, sensor_key>>},
                !.sentinels  = IF IsSentinel(value)
                               THEN @ \cup {[path |-> path, what |-> "value"]}
                               ELSE @,
                !.cyc.values = @ \cup {<<device_uid, sensor_key>>},
                !.cyc.log    = Append(@, ValueMessage(
                                   ValueTopic(topic_prefix, device_uid, sensor_key),
                                   device_uid, sensor_key, path, value))]
      : b \in {before}} : TRUE

(***************************************************************************)
(* One poll cycle. What the cloud answers for one device is an answer      *)
(* [primary, secondary]: the primary fetch fails (PrimaryFailures) or      *)
(* returns a payload; the secondary fetch fails (SecondaryFailures) or     *)
(* returns a payload ("unused": it is not reached).                        *)
(***************************************************************************)
DeviceAnswer(p, s) == [primary |-> p, secondary |-> s]

\* Econet24Client.get_device_params
get_device_params(before, device_uid, answer) ==
    CHOOSE after \in {
        IF b.exc # "none" THEN b
        ELSE IF ~SessionCheckPasses(b.client)
        THEN [b EXCEPT !.exc = "SessionExpiredError",
                       !.cyc.raised = @ \cup {"primary"},
                       !.cyc.primary[device_uid] = "SessionExpiredError"]
        ELSE IF answer.primary \in PrimaryFailures
        THEN [b EXCEPT !.exc = FailureException(answer.primary),
                       !.cyc.raised = @ \cup {"primary"},
                       !.cyc.primary[device_uid] = answer.primary]
        ELSE [b EXCEPT !.cyc.primary[device_uid] = answer.primary]
      : b \in {before}} : TRUE

\* curr.get(key): the value, or None
RECURSIVE CurrGet(_, _)
CurrGet(curr, key) ==
    IF curr = <<>> THEN Null
    ELSE IF Head(curr).k = key THEN Head(curr).v
    ELSE CurrGet(Tail(curr), key)

\* lines 468-473: the WiFi fields of the primary payload
RECURSIVE PublishWifi(_, _, _, _)
PublishWifi(before, device_uid, params, keys) ==
    CHOOSE after \in {
        IF keys = <<>> \/ b.exc # "none" THEN b
        ELSE LET key == Head(keys)
                 b1 == IF key \in DOMAIN params.fields
                       THEN LET v  == params.fields[key]
                                b0 == IF key \in DOMAIN SENSOR_DEFINITIONS
                                      THEN _publish_ha_discovery(b, device_uid, key,
                                               SENSOR_DEFINITIONS[key], "wifi", v)
                                      ELSE b
                            IN  _publish_sensor_value(b0, device_uid, key, "wifi", v)
                       ELSE b
             IN  PublishWifi(b1, device_uid, params, Tail(keys))
      : b \in {before}} : TRUE

\* lines 478-485 of the add-on: the readings the loop over curr skips
SkipsCurrAddon(value) == IsSentinel(value) \/ IsNone(value)

\* lines 361-364 of the standalone script: the readings its loop skips
SkipsCurrStandalone(value) == IsSentinel(value)

\* lines 475-501 (standalone: 358-380): the current sensor values
RECURSIVE PublishCurr(_, _, _)
PublishCurr(before, device_uid, curr) ==
    CHOOSE after \in {
        IF curr = <<>> \/ b.exc # "none" THEN b
        ELSE LET key   == Head(curr).k
                 value == Head(curr).v
                 b1 == IF (IF b.variant = "addon" THEN SkipsCurrAddon(value)
                                                    ELSE SkipsCurrStandalone(value))
                       THEN b
                       ELSE LET sensor_def == IF key \in DOMAIN SENSOR_DEFINITIONS
                                              THEN SENSOR_DEFINITIONS[key]
                                              ELSE generic_def(key)
                                b0 == _publish_ha_discovery(b, device_uid, key,
                                          sensor_def, "curr", value)
                            IN  _publish_sensor_value(b0, device_uid, key, "curr", value)
             IN  PublishCurr(b1, device_uid, Tail(curr))
      : b \in {before}} : TRUE

\* round(x, 1) on a number in hundredths: the nearest tenth, a tie going to
\* the even tenth
Round1(h) ==
    LET q == h \div 10
        r == h % 10
    IN  IF r < 5 THEN 10 * q
        ELSE IF r > 5 THEN 10 * (q + 1)
        ELSE IF q % 2 = 0 THEN 10 * q ELSE 10 * (q + 1)

\* lines 503-511: Delta T
PublishDeltaT(before, device_uid, curr) ==
    CHOOSE after \in {
        LET flow_temp   == CurrGet(curr, "GrantOutgoingTemp")
            return_temp == CurrGet(curr, "GrantReturnTemp")
        IN  IF b.exc # "none" THEN b
            ELSE IF /\ ~IsNone(flow_temp) /\ ~IsNone(return_temp)
                    /\ ~IsSentinel(flow_temp) /\ ~IsSentinel(return_temp)
            THEN LET delta_t == Num(Round1(flow_temp.n - return_temp.n))
                     b0 == _publish_ha_discovery(b, device_uid, "calc_delta_t",
                               SENSOR_DEFINITIONS["calc_delta_t"], "calc", delta_t)
                 IN  _publish_sensor_value(b0, device_uid, "calc_delta_t", "calc", delta_t)
            ELSE b
      : b \in {before}} : TRUE

\* lines 529-537: the allow-listed editable parameters
RECURSIVE PublishEditable(_, _, _)
PublishEditable(before, device_uid, data) ==
    CHOOSE after \in {
        IF data = <<>> \/ b.exc # "none" THEN b
        ELSE LET param_data == Head(data).v
                 b1 == IF param_data.t # "obj" THEN [b EXCEPT !.exc = "AttributeError",
                                          !.cyc.raised = @ \cup {"shape"}]
                       ELSE IF param_data.name \in wanted_editable /\ ~IsNone(param_data.value)
                       THEN LET b0 == IF param_data.name \in DOMAIN SENSOR_DEFINITIONS
                                      THEN _publish_ha_discovery(b, device_uid, param_data.name,
                                               SENSOR_DEFINITIONS[param_data.name],
                                               "editable", param_data.value)
                                      ELSE b
                            IN  _publish_sensor_value(b0, device_uid, param_data.name,
                                                      "editable", param_data.value)
                       ELSE b
             IN  PublishEditable(b1, device_uid, Tail(data))
      : b \in {before}} : TRUE

\* Python truthiness of a JSON value
Truthy(v) ==
    CASE v.t = "bool" -> v.b
      [] v.t = "null" -> FALSE
      [] v.t = "num"  -> v.n # 0
      [] v.t = "str"  -> v.chars # <<>>
      [] v.t = "list" -> v.items # <<>>
      [] OTHER        -> TRUE

\* lines 556-559: the entry has the two elements and a falsy visibility flag
IsHidden(info_data) ==
    /\ info_data.t = "list"
    /\ Len(info_data.items) >= 2
    /\ ~Truthy(info_data.items[1])

\* lines 555-570 with `continue` in place of `pass` at line 569: a string
\* that float() rejects is skipped
InfoDecodeDropsUnparsed(info_data) ==
    LET skip == [ok |-> FALSE, value |-> Null]
    IN  IF ~(info_data.t = "list" /\ Len(info_data.items) >= 2) THEN skip
        ELSE IF ~Truthy(info_data.items[1]) THEN skip
        ELSE LET value_array == info_data.items[2]
             IN  IF ~(value_array.t = "list" /\ Len(value_array.items) > 0) THEN skip
                 ELSE LET inner == value_array.items[1]
                      IN  IF ~(inner.t = "list" /\ Len(inner.items) > 0) THEN skip
                          ELSE LET value == inner.items[1]
                               IN  IF value.t # "str" THEN [ok |-> TRUE, value |-> value]
                                   ELSE IF ParseFloat(value.chars).ok
                                   THEN [ok |-> TRUE,
                                         value |-> Num(ParseFloat(value.chars).n)]
                                   ELSE skip

\* lines 555-570: the value of one information parameter, or a skip
InfoDecode(info_data) ==
    LET skip == [ok |-> FALSE, value |-> Null]
    IN  IF ~(info_data.t = "list" /\ Len(info_data.items) >= 2) THEN skip
        ELSE IF ~Truthy(info_data.items[1]) THEN skip
        ELSE LET value_array == info_data.items[2]
             IN  IF ~(value_array.t = "list" /\ Len(value_array.items) > 0) THEN skip
                 ELSE LET inner == value_array.items[1]
                      IN  IF ~(inner.t = "list" /\ Len(inner.items) > 0) THEN skip
                          ELSE LET value == inner.items[1]
                                   parsed == IF value.t = "str"
                                             THEN ParseFloat(value.chars)
                                             ELSE [ok |-> FALSE, n |-> 0]
                               IN  [ok |-> TRUE,
                                    value |-> IF parsed.ok THEN Num(parsed.n) ELSE value]

\* the loop of lines 547-578 without the shape tests of lines 556-564 and
\* without the except clause of line 577: indexing an entry of the wrong
\* shape raises
RECURSIVE PublishInfoUnguarded(_, _, _)
PublishInfoUnguarded(before, device_uid, info_params) ==
    CHOOSE after \in {
        IF info_params = <<>> \/ b.exc # "none" THEN b
        ELSE LET info_key == Head(info_params).k
                 info_data == Head(info_params).v
                 decoded  == InfoDecode(info_data)
                 seen     == [b EXCEPT !.cyc.info_seen = @ \cup {<<device_uid, info_key>>}]
                 b1 == IF info_key \notin DOMAIN INFORMATION_PARAMS_MAP THEN seen
                       ELSE IF IsHidden(info_data) THEN seen
                       ELSE IF ~decoded.ok
                       THEN [seen EXCEPT !.exc = "IndexError",
                                         !.cyc.raised = @ \cup {"shape"}]
                       ELSE LET sensor_key == INFORMATION_PARAMS_MAP[info_key]
                            IN  _publish_sensor_value(
                                    _publish_ha_discovery(seen, device_uid, sensor_key,
                                        SENSOR_DEFINITIONS[sensor_key], "info",
                                        decoded.value),
                                    device_uid, sensor_key, "info", decoded.value)
             IN  PublishInfoUnguarded(b1, device_uid, Tail(info_params))
      : b \in {before}} : TRUE

\* lines 547-578: the information parameters
RECURSIVE PublishInfo(_, _, _)
PublishInfo(before, device_uid, info_params) ==
    CHOOSE after \in {
        IF info_params = <<>> \/ b.exc # "none" THEN b
        ELSE LET info_key == Head(info_params).k
                 decoded  == InfoDecode(Head(info_params).v)
                 seen     == [b EXCEPT
                                !.cyc.info_seen = @ \cup {<<device_uid, info_key>>},
                                !.hidden = IF /\ info_key \in DOMAIN INFORMATION_PARAMS_MAP
                                              /\ IsHidden(Head(info_params).v)
                                           THEN @ \cup {<<device_uid,
                                                          INFORMATION_PARAMS_MAP[info_key]>>}
                                           ELSE @]
                 b1 == IF info_key \notin DOMAIN INFORMATION_PARAMS_MAP \/ ~decoded.ok THEN seen
                       ELSE LET sensor_key == INFORMATION_PARAMS_MAP[info_key]
                                b0 == IF sensor_key \in DOMAIN SENSOR_DEFINITIONS
                                      THEN _publish_ha_discovery(seen, device_uid, sensor_key,
                                               SENSOR_DEFINITIONS[sensor_key], "info",
                                               decoded.value)
                                      ELSE seen
                            IN  _publish_sensor_value(b0, device_uid, sensor_key, "info",
                                                      decoded.value)
             IN  PublishInfo(b1, device_uid, Tail(info_params))
      : b \in {before}} : TRUE

\* Econet24Client.get_editable_params
get_editable_params(before, device_uid, answer) ==
    CHOOSE after \in {
        IF b.exc # "none" THEN b
        ELSE IF answer.secondary \in SecondaryFailures \ {"wrong_shape"}
        THEN [b EXCEPT !.exc = FailureException(answer.secondary),
                       !.cyc.raised = @ \cup {"secondary"},
                       !.cyc.secondary[device_uid] = answer.secondary]
        ELSE [b EXCEPT !.cyc.secondary[device_uid] = answer.secondary]
      : b \in {before}} : TRUE

\* line 583 catching less than Exception: the client's own errors pass
SecondaryHandlerApiErrorsPass(exc) == IF exc \in Econet24Errors THEN exc ELSE "none"

\* line 583: what step 5's `except Exception` leaves of an exception raised in it
SecondaryHandler(exc) == "none"

\* lines 513-584: the editable and information parameters, fault-isolated
PublishSecondary(before, device_uid, answer) ==
    CHOOSE after \in {
        IF b.exc # "none" THEN b
        ELSE LET b1 == get_editable_params(b, device_uid, answer)
                 b2 == IF b1.exc # "none" THEN b1
                       ELSE IF answer.secondary = "wrong_shape"
                       THEN [b1 EXCEPT !.exc = FailureException("wrong_shape"),
                                       !.cyc.raised = @ \cup {"shape"}]
                       ELSE LET editable == EditablePayload[answer.secondary]
                            IN  PublishInfo(PublishEditable(b1, device_uid, editable.data),
                                            device_uid, editable.info)
             IN  CHOOSE after \in {[x EXCEPT !.exc = SecondaryHandler(x.exc)] : x \in {b2}} : TRUE
      : b \in {before}} : TRUE

\* lines 452-586: the body of the loop over the devices, for one device
PollDevice(before, device_uid, answer) ==
    CHOOSE after \in {
        LET b1 == get_device_params(b, device_uid, answer)
        IN  IF b1.exc # "none" THEN b1
            ELSE LET params == PrimaryPayload[answer.primary]
                     b2 == PublishWifi(b1, device_uid, params, <<"wifiQuality", "wifiStrength">>)
                     b3 == PublishCurr(b2, device_uid, params.curr)
                     b4 == PublishDeltaT(b3, device_uid, params.curr)
                 IN  PublishSecondary(b4, device_uid, answer)
      : b \in {before}} : TRUE

\* the standalone script, lines 335-382: the body of its loop over the
\* devices, which ends after the current values
PollDeviceStandalone(before, device_uid, answer) ==
    CHOOSE after \in {
        LET b1 == get_device_params(b, device_uid, answer)
        IN  IF b1.exc # "none" THEN b1
            ELSE LET params == PrimaryPayload[answer.primary]
                     b2 == PublishWifi(b1, device_uid, params, <<"wifiQuality", "wifiStrength">>)
                 IN  PublishCurr(b2, device_uid, params.curr)
      : b \in {before}} : TRUE

UnusedAnswer == DeviceAnswer("transport", "unused")

\* line 451: for device_uid in self.econet_client.devices, with the cloud's
\* answers in the order the devices are asked
RECURSIVE PollDevices(_, _, _)
PollDevices(before, devices, answers) ==
    CHOOSE after \in {
        IF devices = <<>> \/ b.exc # "none" THEN b
        ELSE PollDevices(
                 LET answer == IF answers = <<>> THEN UnusedAnswer ELSE Head(answers)
                 IN  IF b.variant = "addon"
                     THEN PollDevice(b, Head(devices), answer)
                     ELSE PollDeviceStandalone(b, Head(devices), answer),
                 Tail(devices),
                 IF answers = <<>> THEN <<>> ELSE Tail(answers))
      : b \in {before}} : TRUE

\* _setup_econet that also starts the discovery bookkeeping afresh
setup_econet_resets_discovery(b, login_answer) ==
    LET r == login(NewClient, login_answer, b.account)
    IN  [b EXCEPT !.client = r.client, !.exc = r.exc, !.published = {}]

\* _setup_econet that also empties the slug cache
setup_econet_forgets_slugs(b, login_answer) ==
    LET r == login(NewClient, login_answer, b.account)
    IN  [b EXCEPT !.client = r.client, !.exc = r.exc, !.name_map = << >>]

\* _setup_econet with handlers that log the exception and do not raise it
\* again (lines 338 and 342 left out)
setup_econet_swallows_error(b, login_answer) ==
    LET r == login(NewClient, login_answer, b.account)
    IN  [b EXCEPT !.client = r.client, !.exc = "none"]

\* Econet24MQTTBridge._setup_econet
_setup_econet(b, login_answer) ==
    LET r == login(NewClient, login_answer, b.account)
    IN  [b EXCEPT !.client = r.client, !.exc = r.exc]

\* line 588 naming LoginError where it names Econet24Error
IsLoginErrorOnly(exc) == exc = "LoginError"

\* line 588: `except Econet24Error`
IsApiError(exc) == exc \in Econet24Errors

\* lines 588-598: the handlers of _poll_and_publish
PollHandlers(before, login_answer) ==
    CHOOSE after \in {
        IF b.exc = "none" THEN b
        ELSE IF IsApiError(b.exc)
        THEN LET r == _setup_econet([b EXCEPT !.exc = "none"], login_answer)
             IN  [r EXCEPT !.exc = "none",
                           !.cyc.handler = "Econet24Error",
                           !.cyc.relogins = @ + 1,
                           !.cyc.raised = IF r.exc # "none" THEN @ \cup {"relogin"} ELSE @,
                           !.cyc.relogin_failed = r.exc # "none"]
        ELSE [b EXCEPT !.exc = "none", !.cyc.handler = "Exception"]
      : b \in {before}} : TRUE

\* lines 450-586: the try body of _poll_and_publish
PollBody(before, answers) ==
    CHOOSE after \in {
        PollDevices([b EXCEPT !.cyc.devices = b.client.devices], b.client.devices, answers)
      : b \in {before}} : TRUE

\* lines 627-630: what run()'s `except Exception` leaves of an exception
\* that _poll_and_publish raised
RunHandler(exc) == "none"

\* the cycle with the re-login of line 592 outside any try: its exception
\* leaves _poll_and_publish and run()
run_cycle_relogin_unguarded(body, login_answer) ==
    LET r == PollHandlers(body, login_answer)
    IN  [r EXCEPT !.exc = IF r.cyc.relogin_failed THEN "LoginError" ELSE "none"]

\* lines 627-630 with _poll_and_publish, given what its try body did
run_cycle(body, login_answer) ==
    LET r == PollHandlers(body, login_answer)
    IN  [r EXCEPT !.exc = RunHandler(r.exc)]

(***************************************************************************)
(* The answers the cloud can give in one cycle, in the order the devices   *)
(* are asked: none when the local session check fails, and none after a    *)
(* primary fetch that fails.                                               *)
(***************************************************************************)
DeviceAnswers(acct) ==
    {DeviceAnswer(f, "unused") : f \in PrimaryFailures}
    \cup {DeviceAnswer(p, s) : p \in AccountPayloads(acct),
                               s \in SecondaryFailures \cup AccountEditables(acct)}

RECURSIVE AnswerSeqs(_, _)
AnswerSeqs(acct, n) ==
    IF n = 0 THEN {<<>>}
    ELSE {<<a>> : a \in {x \in DeviceAnswers(acct) : x.primary \in PrimaryFailures}}
         \cup {<<a>> \o rest :
                 a \in {x \in DeviceAnswers(acct) : x.primary \notin PrimaryFailures},
                 rest \in AnswerSeqs(acct, n - 1)}

CycleAnswers(acct, client) ==
    IF ~SessionCheckPasses(client) THEN {<<>>}
    ELSE AnswerSeqs(acct, Len(client.devices))

NoLoginAnswer == LoginAnswer("unreachable", {}, "fail")

(***************************************************************************)
(* State.                                                                  *)
(*   pc            where the process is: "main" (main() has read the       *)
(*                 environment), "exit_1" (sys.exit(1)), "start" (bridge   *)
(*                 constructed, signal handlers registered, run() not yet  *)
(*                 at its first statement), "start_stopped" (the same,     *)
(*                 after a stop request), "setup" (run() has set running), *)
(*                 "loop" (at the while test), "cycle_done" (the cycle has *)
(*                 returned to run()), "sleep" (at the test of the sleep   *)
(*                 loop), "tick" (in time.sleep(1)), "shutdown" (the bus   *)
(*                 loop is stopped), "done" (run() returned), "crashed"    *)
(*                 (an exception left run())                               *)
(*   cyc           what the cycle that has just returned did; forgotten    *)
(*                 when the sleep begins                                   *)
(*   sleep_left    the passes the sleep loop still has to make             *)
(*   mqtt_client   "None", "connected" (connect and loop_start made),      *)
(*                 "loop_stopped", "disconnected"                          *)
(*   variant       which of the repository's two bridges this instance is  *)
(*   econet_username, econet_password                                      *)
(*                 ECONET24_USERNAME and ECONET24_PASSWORD as main() read  *)
(*                 them                                                    *)
(*   discovery_prefix                                                      *)
(*                 the ha_discovery_prefix the bridge was constructed with *)
(*   failed_discovery                                                      *)
(*                 per sensor key, how many discovery publishes raised     *)
(*                 (counted up to MaxFailedCount)                          *)
(*   fetched       a data-fetch operation called on the client on its own: *)
(*                 which one, what it raised, how many requests it sent    *)
(*   login_call    a call of login() made on a client on its own: the      *)
(*                 client before it, the cloud's answer, what it raised    *)
(*   device_prefix what the package generator's main() and the bridge      *)
(*                 made of one DEVICE_NAME setting and one device          *)
(*   slug_input, slug_output                                               *)
(*                 a text given to slugify, and what slugify returned for  *)
(*                 it and for its own result                               *)
(***************************************************************************)
VARIABLES pc, running, econet_client, mqtt_client, _discovery_published,
          _device_name_map, device_name, econet_username, econet_password,
          discovery_prefix, slug_input, slug_output, fetched, login_call,
          device_prefix, poll_interval,
          sleep_left, account, variant, docs, orphans, republished, sentinels,
          hidden, failed_discovery, cyc

vars == <<pc, running, econet_client, mqtt_client, _discovery_published,
          _device_name_map, device_name, econet_username, econet_password,
          discovery_prefix, slug_input, slug_output, fetched, login_call,
          device_prefix, poll_interval,
          sleep_left, account, variant, docs, orphans, republished, sentinels,
          hidden, failed_discovery, cyc>>

\* what main() and the constructor fix for the life of the process
configuration == <<device_name, econet_username, econet_password, discovery_prefix,
                   poll_interval, account, variant>>

\* the values the model keeps about the publishes made so far
history == <<docs, orphans, republished, sentinels, hidden, failed_discovery>>

\* the calls the model makes of functions on their own
called == <<slug_input, slug_output, fetched, login_call, device_prefix>>

Bridge ==
    [client |-> econet_client, published |-> _discovery_published,
     name_map |-> _device_name_map, device_name |-> device_name,
     discovery_prefix |-> discovery_prefix,
     account |-> account, variant |-> variant, exc |-> "none", docs |-> docs, orphans |-> orphans,
     republished |-> republished, sentinels |-> sentinels,
     hidden |-> hidden, failed |-> failed_discovery, cyc |-> NewCycle]

\* Econet24MQTTBridge.__init__: the fields of a bridge that has not run
Constructed ==
    /\ running = FALSE
    /\ econet_client = NoClient
    /\ mqtt_client = "None"
    /\ _discovery_published = {}
    /\ _device_name_map = << >>
    /\ sleep_left = 0
    /\ docs = {}
    /\ orphans = {}
    /\ republished = {}
    /\ sentinels = {}
    /\ hidden = {}
    /\ failed_discovery = << >>
    /\ cyc = NewCycle

\* The process starts in main() with the environment read (lines 653-660),
\* which constructs the bridge with the default discovery prefix; or a caller
\* of the constructor passes its own ha_discovery_prefix (line 287) and is
\* about to call run().
Init ==
    /\ Constructed
    /\ device_name \in DeviceNames
    /\ poll_interval \in 0..MaxPollInterval
    /\ account \in Accounts
    /\ variant \in Variants
    /\ slug_input = << >>
    /\ slug_output = NoSlug
    /\ fetched = NoFetch
    /\ login_call = NoLogin
    /\ device_prefix = NoPrefix
    /\ \/ /\ pc = "main"
          /\ econet_username \in EnvValues
          /\ econet_password \in EnvValues
          /\ discovery_prefix = ha_discovery_prefix
       \/ /\ pc = "start"
          /\ econet_username = EnvValue(<<"u">>)
          /\ econet_password = EnvValue(<<"p">>)
          /\ discovery_prefix \in DiscoveryPrefixes \ {ha_discovery_prefix}

\* main(), lines 662-686: the credentials test, the construction of the
\* bridge and the registration of the signal handlers
Main ==
    /\ pc = "main"
    /\ pc' = IF Missing(econet_username) \/ Missing(econet_password)
             THEN "exit_1" ELSE "start"
    /\ UNCHANGED <<running, econet_client, mqtt_client, _discovery_published,
                   _device_name_map, sleep_left, configuration, history, called, cyc>>

\* run(), line 602: self.running = True
Start ==
    /\ pc \in {"start", "start_stopped"}
    /\ running' = TRUE
    /\ pc' = "setup"
    /\ UNCHANGED <<econet_client, mqtt_client, _discovery_published,
                   _device_name_map, sleep_left, configuration, history, called, cyc>>

\* run(), lines 612-617: _setup_econet, then _setup_mqtt
Setup ==
    /\ pc = "setup"
    /\ \E login_answer \in LoginAnswers, mqtt_ok \in BOOLEAN :
         LET r == _setup_econet(Bridge, login_answer)
         IN  /\ econet_client' = r.client
             /\ IF r.exc # "none"
                THEN pc' = "crashed" /\ UNCHANGED mqtt_client
                ELSE IF mqtt_ok
                THEN pc' = "loop" /\ mqtt_client' = "connected"
                ELSE pc' = "crashed" /\ UNCHANGED mqtt_client
    /\ UNCHANGED <<running, _discovery_published, _device_name_map, sleep_left,
                   configuration, history, called, cyc>>

\* run(), lines 623-630: the while test holds and one poll cycle runs
PollAndPublish ==
    /\ pc = "loop"
    /\ running
    /\ \E answers \in CycleAnswers(account, econet_client) :
         \E body \in {PollBody(Bridge, answers)} :
           \E login_answer \in (IF IsApiError(body.exc) THEN LoginAnswers
                                ELSE {NoLoginAnswer}) :
             \E r \in {run_cycle(body, login_answer)} :
                   /\ econet_client' = r.client
                   /\ _discovery_published' = r.published
                   /\ _device_name_map' = r.name_map
                   /\ docs' = r.docs
                   /\ orphans' = r.orphans
                   /\ republished' = r.republished
                   /\ sentinels' = r.sentinels
                   /\ hidden' = r.hidden
                   /\ failed_discovery' = r.failed
                   /\ cyc' = r.cyc
                   /\ pc' = IF r.exc = "none" THEN "cycle_done" ELSE "crashed"
    /\ UNCHANGED <<running, mqtt_client, sleep_left, configuration, called>>

\* run(), lines 632-634: the cycle has returned and the sleep loop begins
StartSleep ==
    /\ pc = "cycle_done"
    /\ pc' = "sleep"
    /\ sleep_left' = poll_interval
    /\ cyc' = NewCycle
    /\ UNCHANGED <<running, econet_client, mqtt_client, _discovery_published,
                   _device_name_map, configuration, history, called>>

\* the sleep loop without the test of line 635
sleep_tick_ignores_flag ==
    /\ pc = "sleep"
    /\ sleep_left > 0
    /\ pc' = "tick"
    /\ UNCHANGED <<running, econet_client, mqtt_client, _discovery_published,
                   _device_name_map, sleep_left, configuration, history, called, cyc>>

\* run(), lines 634-637: a pass of the sleep loop finds running set and
\* enters time.sleep(1)
SleepTick ==
    /\ pc = "sleep"
    /\ sleep_left > 0
    /\ running
    /\ pc' = "tick"
    /\ UNCHANGED <<running, econet_client, mqtt_client, _discovery_published,
                   _device_name_map, sleep_left, configuration, history, called, cyc>>

\* run(), line 637: time.sleep(1) returns
SleepTickEnd ==
    /\ pc = "tick"
    /\ pc' = "sleep"
    /\ sleep_left' = sleep_left - 1
    /\ UNCHANGED <<running, econet_client, mqtt_client, _discovery_published,
                   _device_name_map, configuration, history, called, cyc>>

\* run(), lines 634-637: the sleep loop ends (range exhausted, or break)
SleepEnd ==
    /\ pc = "sleep"
    /\ sleep_left = 0 \/ ~running
    /\ pc' = "loop"
    /\ sleep_left' = 0
    /\ UNCHANGED <<running, econet_client, mqtt_client, _discovery_published,
                   _device_name_map, configuration, history, called, cyc>>

\* run(), lines 639-641: the while test fails and the bus loop is stopped
Shutdown ==
    /\ pc = "loop"
    /\ ~running
    /\ mqtt_client' = "loop_stopped"
    /\ pc' = "shutdown"
    /\ UNCHANGED <<running, econet_client, _discovery_published,
                   _device_name_map, sleep_left, configuration, history, called, cyc>>

\* run() returning after loop_stop() without line 642
returns_without_disconnect ==
    /\ pc = "shutdown"
    /\ pc' = "done"
    /\ UNCHANGED <<running, econet_client, mqtt_client, _discovery_published,
                   _device_name_map, sleep_left, configuration, history, called, cyc>>

\* run(), lines 642-643: the bridge disconnects from the bus and run() returns
Disconnect ==
    /\ pc = "shutdown"
    /\ mqtt_client' = "disconnected"
    /\ pc' = "done"
    /\ UNCHANGED <<running, econet_client, _discovery_published,
                   _device_name_map, sleep_left, configuration, history, called, cyc>>

\* stop(), called by the signal handler that main() registered (lines
\* 684-689), between any two steps of run()
Stop ==
    /\ pc \in {"start", "start_stopped", "setup", "loop", "cycle_done", "sleep",
               "tick", "shutdown"}
    /\ running' = FALSE
    /\ pc' = IF pc = "start" THEN "start_stopped" ELSE pc
    /\ UNCHANGED <<econet_client, mqtt_client, _discovery_published,
                   _device_name_map, sleep_left, configuration, history, called, cyc>>

\* the session cookies of the client's jar expire
SessionCookiesExpire ==
    /\ pc \in {"loop", "sleep"}
    /\ econet_client.cookies # {}
    /\ econet_client' = [econet_client EXCEPT !.cookies = {}]
    /\ UNCHANGED <<pc, running, mqtt_client, _discovery_published,
                   _device_name_map, sleep_left, configuration, history, called, cyc>>

\* an on_connect callback that starts the discovery afresh on every
\* (re)connection
on_connect_clears_discovery ==
    /\ mqtt_client = "connected"
    /\ _discovery_published' = {}
    /\ UNCHANGED <<pc, running, econet_client, mqtt_client, _device_name_map,
                   sleep_left, configuration, history, called, cyc>>

\* _on_mqtt_connect, called by the bus thread with any result code: it
\* writes a log line and nothing else
_on_mqtt_connect ==
    /\ mqtt_client = "connected"
    /\ UNCHANGED vars

\* _on_mqtt_disconnect, called by the bus thread (the library reconnects by
\* itself): it writes a log line and nothing else
_on_mqtt_disconnect ==
    /\ mqtt_client = "connected"
    /\ UNCHANGED vars

\* _on_mqtt_publish, called by the bus thread when a message has gone out:
\* it writes a log line and nothing else
_on_mqtt_publish ==
    /\ mqtt_client = "connected"
    /\ UNCHANGED vars

Next ==
    \/ Main
    \/ Start
    \/ Setup
    \/ PollAndPublish
    \/ StartSleep
    \/ SleepTick
    \/ SleepTickEnd
    \/ SleepEnd
    \/ Shutdown
    \/ Disconnect
    \/ Stop
    \/ SessionCookiesExpire
    \/ _on_mqtt_connect
    \/ _on_mqtt_disconnect
    \/ _on_mqtt_publish

Spec == Init /\ [][Next]_vars

(***************************************************************************)
(* slugify on its own: a text of at most MaxSlugLen characters is given to *)
(* slugify, and the result is given to slugify again. The characters are   *)
(* an upper-case and a lower-case letter, a digit, a blank, the separator  *)
(* itself, a punctuation mark and two characters outside ASCII.            *)
(***************************************************************************)
SlugChars == {"A", "a", "1", " ", "_", "-", "U+00C9", "U+212A"}

SlugInputs == UNION {[1..n -> SlugChars] : n \in 0..MaxSlugLen}

SlugInit ==
    /\ Constructed
    /\ pc = "slugify"
    /\ device_name = NoName
    /\ econet_username = EnvUnset
    /\ econet_password = EnvUnset
    /\ discovery_prefix = ha_discovery_prefix
    /\ poll_interval = 1
    /\ account = "single"
    /\ variant = "addon"
    /\ slug_input \in SlugInputs
    /\ slug_output = NoSlug
    /\ fetched = NoFetch
    /\ login_call = NoLogin
    /\ device_prefix = NoPrefix

\* slugify(text) is called
SlugifyText ==
    /\ pc = "slugify"
    /\ slug_output.calls = 0
    /\ slug_output' = [slug_output EXCEPT !.calls = 1, !.once = slugify(slug_input)]
    /\ UNCHANGED <<pc, running, econet_client, mqtt_client, _discovery_published,
                   _device_name_map, sleep_left, configuration, history, slug_input,
                   fetched, login_call, device_prefix, cyc>>

\* slugify is called on what slugify returned
SlugifyAgain ==
    /\ pc = "slugify"
    /\ slug_output.calls = 1
    /\ slug_output' = [slug_output EXCEPT !.calls = 2, !.twice = slugify(slug_output.once)]
    /\ UNCHANGED <<pc, running, econet_client, mqtt_client, _discovery_published,
                   _device_name_map, sleep_left, configuration, history, slug_input,
                   fetched, login_call, device_prefix, cyc>>

SlugNext ==
    \/ SlugifyText
    \/ SlugifyAgain

SlugSpec == SlugInit /\ [][SlugNext]_vars

(***************************************************************************)
(* The client on its own: besides the bridge, a caller holds a client in   *)
(* any state of its session (logged in or not, with any of the session     *)
(* cookies and the CSRF cookie in its jar, with or without a device list)  *)
(* and calls one data-fetch operation on it.                               *)
(***************************************************************************)
ClientStates ==
    {[t |-> "Econet24Client", logged_in |-> l, cookies |-> c, devices |-> d] :
       l \in BOOLEAN, c \in SUBSET (SessionCookieNames \cup {"csrftoken"}),
       d \in {<< >>, <<RedirectDevice>>}}

ClientInit ==
    /\ pc = "client"
    /\ econet_client \in ClientStates
    /\ running = FALSE
    /\ mqtt_client = "None"
    /\ _discovery_published = {}
    /\ _device_name_map = << >>
    /\ sleep_left = 0
    /\ docs = {} /\ orphans = {} /\ republished = {} /\ sentinels = {} /\ hidden = {}
    /\ failed_discovery = << >>
    /\ cyc = NewCycle
    /\ device_name = NoName
    /\ econet_username = EnvUnset
    /\ econet_password = EnvUnset
    /\ discovery_prefix = ha_discovery_prefix
    /\ poll_interval = 1
    /\ account = "single"
    /\ variant = "addon"
    /\ slug_input = << >>
    /\ slug_output = NoSlug
    /\ fetched = NoFetch
    /\ login_call = NoLogin
    /\ device_prefix = NoPrefix

\* one data-fetch operation is called on the client
DataFetch ==
    /\ pc = "client"
    /\ fetched = NoFetch
    /\ \E op \in FetchOps, uid \in {NoUid, RedirectDevice}, answer \in FetchAnswers :
         fetched' = data_fetch(econet_client, op, uid, answer)
    /\ UNCHANGED <<pc, running, econet_client, mqtt_client, _discovery_published,
                   _device_name_map, sleep_left, configuration, history, slug_input,
                   slug_output, login_call, device_prefix, cyc>>

FetchInit == Init \/ ClientInit

FetchNext == Next \/ DataFetch

FetchSpec == FetchInit /\ [][FetchNext]_vars

(***************************************************************************)
(* The device prefix on its own: for one DEVICE_NAME setting and one       *)
(* device, the bridge that main() constructs is asked for the device's     *)
(* slug, and the package generator's main(), given the device identifier   *)
(* as DEVICE_UID, computes its prefix.                                     *)
(***************************************************************************)
PrefixInit ==
    /\ Constructed
    /\ pc = "prefix"
    /\ \E name_value \in NameSettings, d \in Devices :
         /\ device_prefix = [calls |-> 0, name |-> name_value, device |-> d,
                             bridge |-> [called |-> FALSE, slug |-> << >>],
                             package |-> [called |-> FALSE, ok |-> FALSE, prefix |-> << >>]]
         /\ device_name = main_device_name(name_value)
    /\ econet_username = EnvValue(<<"u">>)
    /\ econet_password = EnvValue(<<"p">>)
    /\ discovery_prefix = ha_discovery_prefix
    /\ poll_interval = 1
    /\ account = "single"
    /\ variant = "addon"
    /\ slug_input = << >>
    /\ slug_output = NoSlug
    /\ fetched = NoFetch
    /\ login_call = NoLogin

\* the bridge calls _get_device_slug for the device
BridgeSlug ==
    /\ pc = "prefix"
    /\ ~device_prefix.bridge.called
    /\ LET slug == _get_device_slug(Bridge, device_prefix.device)
       IN  /\ _device_name_map' = (device_prefix.device :> slug) @@ _device_name_map
           /\ device_prefix' = [device_prefix EXCEPT !.calls = @ + 1,
                                   !.bridge = [called |-> TRUE, slug |-> slug]]
    /\ UNCHANGED <<pc, running, econet_client, mqtt_client, _discovery_published,
                   sleep_left, configuration, history, slug_input, slug_output,
                   fetched, login_call, cyc>>

\* the package generator's main() runs
PackagePrefix ==
    /\ pc = "prefix"
    /\ ~device_prefix.package.called
    /\ LET r == generate_device_prefix(device_prefix.name,
                                       EnvValue(DeviceUidChars[device_prefix.device]))
       IN  device_prefix' = [device_prefix EXCEPT !.calls = @ + 1,
                               !.package = [called |-> TRUE, ok |-> r.ok, prefix |-> r.prefix]]
    /\ UNCHANGED <<pc, running, econet_client, mqtt_client, _discovery_published,
                   _device_name_map, sleep_left, configuration, history, slug_input,
                   slug_output, fetched, login_call, cyc>>

PrefixNext ==
    \/ BridgeSlug
    \/ PackagePrefix

PrefixSpec == PrefixInit /\ [][PrefixNext]_vars

(***************************************************************************)
(* login() on its own: it is called once on a client in any state of its   *)
(* session, for every answer of the cloud, those with a user-devices       *)
(* document that carries a number included.                                *)
(***************************************************************************)
LoginInit ==
    /\ pc = "login"
    /\ econet_client \in ClientStates
    /\ account \in Accounts
    /\ running = FALSE
    /\ mqtt_client = "None"
    /\ _discovery_published = {}
    /\ _device_name_map = << >>
    /\ sleep_left = 0
    /\ docs = {} /\ orphans = {} /\ republished = {} /\ sentinels = {} /\ hidden = {}
    /\ failed_discovery = << >>
    /\ cyc = NewCycle
    /\ device_name = NoName
    /\ econet_username = EnvValue(<<"u">>)
    /\ econet_password = EnvValue(<<"p">>)
    /\ discovery_prefix = ha_discovery_prefix
    /\ poll_interval = 1
    /\ variant = "addon"
    /\ slug_input = << >>
    /\ slug_output = NoSlug
    /\ fetched = NoFetch
    /\ login_call = NoLogin
    /\ device_prefix = NoPrefix

\* client.login(username, password) is called
LoginCall ==
    /\ pc = "login"
    /\ login_call = NoLogin
    /\ \E answer \in LoginAnswers \cup OddLoginAnswers :
         LET r == login(econet_client, answer, account)
         IN  /\ econet_client' = r.client
             /\ login_call' = [calls |-> 1, before |-> econet_client,
                               answer |-> answer, exc |-> r.exc]
    /\ UNCHANGED <<pc, running, mqtt_client, _discovery_published, _device_name_map,
                   sleep_left, configuration, history, slug_input, slug_output,
                   fetched, device_prefix, cyc>>

LoginNext == LoginCall

LoginSpec == LoginInit /\ [][LoginNext]_vars

(***************************************************************************)
(* Properties.                                                             *)
(***************************************************************************)

\* C1: a re-login that failed is retried by the next cycle: a poll cycle
\* that starts with the client a failed re-login left behind (not logged
\* in) attempts the login again.
C1_ReloginRetried ==
    [][(pc = "loop" /\ pc' = "cycle_done" /\ ~econet_client.logged_in)
       => cyc'.relogins > 0]_vars

\* C2: a cycle in which a primary fetch raised session-expired made exactly
\* one re-login call and returned normally to run().
C2_OneReloginOnSessionExpiry ==
    (\E d \in Devices : cyc.primary[d] = "SessionExpiredError")
    => (cyc.relogins = 1 /\ cyc.handler = "Econet24Error" /\ pc = "cycle_done")

C2_Witness ==
    /\ pc = "cycle_done"
    /\ \E d \in Devices : cyc.primary[d] = "SessionExpiredError"
    /\ cyc.relogins = 1

\* C3: every value published on {topic_prefix}/d/k was preceded by a
\* discovery document whose state_topic is {topic_prefix}/d/k.
C3_DiscoveryPerDeviceAndKey == orphans = {}

\* C4: for an account with a single device, every sensor key whose value is
\* published has exactly one discovery document published in total, and
\* that document was published before the key's first value.
C4_OneDiscoveryBeforeFirstValue ==
    account = "single"
    => /\ orphans = {}
       /\ republished = {}
       /\ \A dk \in cyc.values :
            Cardinality({doc \in docs : doc.key = dk[2]}) = 1

C4_Witness ==
    /\ account = "single"
    /\ pc = "cycle_done"
    /\ cyc.primary["D1"] = "P2"
    /\ <<"D1", "wifiQuality">> \in cyc.values
    /\ \E doc \in docs : doc.key = "TempOutdoor"

\* C5: no value and no discovery document is ever published for a reading
\* whose value is 999.0, on any path.
C5_SentinelNeverPublished == sentinels = {}

\* C6: distinct (device, sensor key) pairs never share a discovery topic.
C6_DiscoveryTopicsDistinct ==
    \A x \in docs, y \in docs :
      x.topic = y.topic => (x.device = y.device /\ x.key = y.key)

\* where run() is while it is in the polling loop of lines 623-637
LoopPositions == {"loop", "cycle_done", "sleep", "tick"}

\* C7: no poll cycle, whatever error it meets, makes run() raise, and the
\* loop is left only when the running flag has been cleared.
C7_LoopSurvivesErrors ==
    [][/\ (pc \in LoopPositions => pc' # "crashed")
       /\ (pc = "loop" /\ running => pc' \in {"loop", "cycle_done"})
       /\ (pc \in LoopPositions /\ pc' \notin LoopPositions
           => ~running /\ pc' = "shutdown")]_vars

C7_Witness ==
    /\ pc = "sleep"
    /\ ~econet_client.logged_in
    /\ running

\* C8: when the primary fetch of one device fails, the devices listed after
\* it are still fetched in the same cycle.
C8_OnlyFailingDeviceSkipped ==
    \A i \in DOMAIN cyc.devices, j \in DOMAIN cyc.devices :
      (i < j /\ cyc.primary[cyc.devices[i]] \in PrimaryFailures \cup {"SessionExpiredError"})
      => cyc.primary[cyc.devices[j]] # "not_called"

\* the (device, key) values steps 1-4 publish for a device from a payload
PrimaryValues(d, p) ==
    LET params == PrimaryPayload[p]
        valid  == {i \in DOMAIN params.curr :
                     ~IsSentinel(params.curr[i].v) /\ ~IsNone(params.curr[i].v)}
        keys   == {params.curr[i].k : i \in valid}
    IN  {<<d, k>> : k \in DOMAIN params.fields \cup keys
                         \cup (IF {"GrantOutgoingTemp", "GrantReturnTemp"} \subseteq keys
                               THEN {"calc_delta_t"} ELSE {})}

\* C9: a failure of the secondary fetch for a device leaves the device's
\* WiFi, primary and Delta-T publishes of the cycle made, reaches neither
\* handler of the cycle, and does not stop the devices after it.
C9_SecondaryFailureContained ==
    \A i \in DOMAIN cyc.devices :
      LET d == cyc.devices[i]
      IN  cyc.secondary[d] \in SecondaryFailures
          => /\ cyc.primary[d] \in PayloadIds
             /\ PrimaryValues(d, cyc.primary[d]) \subseteq cyc.values
             /\ \A j \in DOMAIN cyc.devices :
                  j > i => cyc.primary[cyc.devices[j]] # "not_called"
             /\ cyc.raised \cap {"primary", "publish"} = {}
                => (cyc.handler = "none" /\ cyc.relogins = 0)

C9_Witness ==
    /\ pc = "cycle_done"
    /\ cyc.devices = <<"D1", "D2">>
    /\ cyc.secondary["D1"] = "raise_session"
    /\ cyc.primary["D2"] = "P1"
    /\ <<"D2", "wifiQuality">> \in cyc.values
    /\ cyc.handler = "none"

\* C10: a cycle in which a fetch failed because the session is no longer
\* authorized (the local session check, or an authorization-rejected HTTP
\* status) made a re-login attempt.
C10_AuthFailureTriggersRelogin ==
    (\E d \in Devices : cyc.primary[d] \in {"SessionExpiredError", "http_auth"})
    => cyc.relogins >= 1

\* C11: no discovery document and no value is published for a reading of
\* the primary current-values map whose value is null, in either bridge.
C11_NullNeverPublished ==
    \A i \in DOMAIN cyc.log :
      cyc.log[i].path = "curr" => ~IsNone(cyc.log[i].value)

\* C12: the set of already-discovered keys is empty at construction and
\* no step ever removes a key from it.
C12_DedupSetMonotonic ==
    /\ _discovery_published = {}
    /\ [][_discovery_published \subseteq _discovery_published']_vars

C12_Witness ==
    /\ pc = "cycle_done"
    /\ cyc.relogin_failed
    /\ _discovery_published # {}

\* the informationParams block a device's secondary fetch returned this cycle
InfoBlock(d) ==
    IF cyc.secondary[d] \in EditableIds THEN EditablePayload[cyc.secondary[d]].info
    ELSE <<>>

\* its entries that the loop over the block has taken up
SeenEntries(d) == {i \in DOMAIN InfoBlock(d) : <<d, InfoBlock(d)[i].k>> \in cyc.info_seen}

\* positions in the cycle's log of the messages of one kind for (d, key)
\* that the information parameters caused
InfoMessages(d, key, what) ==
    {i \in DOMAIN cyc.log : /\ cyc.log[i].what = what
                            /\ cyc.log[i].path = "info"
                            /\ cyc.log[i].device = d
                            /\ cyc.log[i].key = key}

\* C13: an information parameter whose visibility flag is falsy causes no
\* discovery and no value publish in that cycle; when a parameter that was
\* hidden in an earlier cycle arrives visible, its value is published in
\* that cycle and the discovery document of that device's sensor has been
\* published before it.
C13_HiddenThenVisible ==
    \A d \in Devices : \A i \in SeenEntries(d) :
      LET info_key  == InfoBlock(d)[i].k
          info_data == InfoBlock(d)[i].v
          key       == INFORMATION_PARAMS_MAP[info_key]
      IN  info_key \in DOMAIN INFORMATION_PARAMS_MAP
          => /\ IsHidden(info_data)
                => InfoMessages(d, key, "discovery") \cup InfoMessages(d, key, "value") = {}
             /\ (<<d, key>> \in hidden /\ InfoDecode(info_data).ok)
                => /\ InfoMessages(d, key, "value") # {}
                   /\ \E doc \in docs : doc.device = d /\ doc.key = key

\* an entry of informationParams of the expected shape
\* [visible, [[value, ...], ...], ...] with a truthy visibility flag
WellFormedInfo(info_data) ==
    /\ info_data.t = "list"
    /\ Len(info_data.items) >= 2
    /\ Truthy(info_data.items[1])
    /\ info_data.items[2].t = "list"
    /\ Len(info_data.items[2].items) > 0
    /\ info_data.items[2].items[1].t = "list"
    /\ Len(info_data.items[2].items[1].items) > 0

\* an entry that is not a list, is too short, or whose value array or inner
\* array is missing or empty
MalformedInfo(info_data) ==
    \/ info_data.t # "list"
    \/ Len(info_data.items) < 2
    \/ info_data.items[2].t # "list"
    \/ Len(info_data.items[2].items) = 0
    \/ info_data.items[2].items[1].t # "list"
    \/ Len(info_data.items[2].items[1].items) = 0

\* C14: a malformed entry of informationParams causes no publish for its
\* key, and only for its key: the loop goes on through the whole block, the
\* well-formed entries of the block are published, so no exception left
\* the decoding of the entry.
C14_MalformedInfoContained ==
    \A d \in Devices : \A i \in SeenEntries(d) :
      LET block == InfoBlock(d)
      IN  (block[i].k \in DOMAIN INFORMATION_PARAMS_MAP /\ MalformedInfo(block[i].v))
          => /\ InfoMessages(d, INFORMATION_PARAMS_MAP[block[i].k], "discovery") = {}
             /\ InfoMessages(d, INFORMATION_PARAMS_MAP[block[i].k], "value") = {}
             /\ \A j \in DOMAIN block :
                  /\ <<d, block[j].k>> \in cyc.info_seen
                  /\ (block[j].k \in DOMAIN INFORMATION_PARAMS_MAP
                        /\ WellFormedInfo(block[j].v))
                     => InfoMessages(d, INFORMATION_PARAMS_MAP[block[j].k], "value") # {}

C14_Witness ==
    /\ pc = "cycle_done"
    /\ cyc.secondary["D1"] = "E3"
    /\ {<<"D1", "22">>, <<"D1", "24">>, <<"D1", "25">>, <<"D1", "26">>,
         <<"D1", "203">>, <<"D1", "211">>} \subseteq cyc.info_seen
    /\ {<<"D1", "info_cop">>, <<"D1", "info_flow_rate">>} \subseteq cyc.values

\* C15: when the data map of a device's editable parameters holds an entry
\* that is not an object, the other allow-listed entries of the map that
\* carry a value, and the visible well-formed information parameters of the
\* same answer, are published in that cycle.
C15_MalformedEditableContained ==
    \A d \in Devices :
      cyc.secondary[d] \in EditableIds
      => LET editable == EditablePayload[cyc.secondary[d]]
         IN  (\E i \in DOMAIN editable.data : editable.data[i].v.t # "obj")
             => /\ \A j \in DOMAIN editable.data :
                     LET param_data == editable.data[j].v
                     IN  (/\ param_data.t = "obj"
                          /\ param_data.name \in wanted_editable
                          /\ ~IsNone(param_data.value))
                         => <<d, param_data.name>> \in cyc.values
                /\ \A j \in DOMAIN editable.info :
                     (/\ editable.info[j].k \in DOMAIN INFORMATION_PARAMS_MAP
                      /\ WellFormedInfo(editable.info[j].v))
                     => <<d, INFORMATION_PARAMS_MAP[editable.info[j].k]>> \in cyc.values

\* C16: a key of curr that is not in SENSOR_DEFINITIONS is announced with
\* the raw key as name and the generic icon; a discovery document for the
\* device's sensor has been published before each of its values; and, in a
\* cycle where no publish raised, each such key with a valid reading has
\* its value published.
C16_UnmappedKeyDiscovered ==
    /\ \A i \in DOMAIN cyc.log :
         LET m == cyc.log[i]
         IN  (m.path = "curr" /\ m.key \notin DOMAIN SENSOR_DEFINITIONS)
             => /\ m.what = "discovery"
                   => (m.name = RawKeyChars[m.key] /\ m.icon = "mdi:information")
                /\ m.what = "value"
                   => \E doc \in docs : doc.device = m.device /\ doc.key = m.key
    /\ \A d \in Devices :
         (cyc.primary[d] \in PayloadIds /\ "publish" \notin cyc.raised)
         => \A j \in DOMAIN PrimaryPayload[cyc.primary[d]].curr :
              LET item == PrimaryPayload[cyc.primary[d]].curr[j]
              IN  (/\ item.k \notin DOMAIN SENSOR_DEFINITIONS
                   /\ ~IsSentinel(item.v)
                   /\ ~IsNone(item.v))
                  => <<d, item.k>> \in cyc.values

\* a reading that is present, not null and not 999.0
ValidReading(v) == ~IsNone(v) /\ ~IsSentinel(v)

\* C17: in the add-on, calc_delta_t is published for a device in a cycle
\* exactly when GrantOutgoingTemp and GrantReturnTemp are both valid in its
\* curr; the value is a whole number of tenths, the nearest to flow minus
\* return (45.3 and 38.7 give 6.6); and a discovery document of that
\* device's calc_delta_t has been published before the value.
C17_DeltaT ==
    variant = "addon"
    => \A d \in Devices :
         cyc.primary[d] \in PayloadIds
         => LET curr == PrimaryPayload[cyc.primary[d]].curr
                flow_temp   == CurrGet(curr, "GrantOutgoingTemp")
                return_temp == CurrGet(curr, "GrantReturnTemp")
                sent == {i \in DOMAIN cyc.log : /\ cyc.log[i].what = "value"
                                                /\ cyc.log[i].device = d
                                                /\ cyc.log[i].key = "calc_delta_t"}
            IN  /\ sent # {} <=> (ValidReading(flow_temp) /\ ValidReading(return_temp))
                /\ \A i \in sent :
                     LET delta_t == cyc.log[i].value
                         exact   == flow_temp.n - return_temp.n
                     IN  /\ delta_t.t = "num"
                         /\ delta_t.n % 10 = 0
                         /\ delta_t.n - exact \in -5..5
                         /\ (flow_temp.n = 4530 /\ return_temp.n = 3870) => delta_t.n = 660
                         /\ \E doc \in docs : doc.device = d /\ doc.key = "calc_delta_t"

\* the value an entry of the expected shape carries: the first element of
\* its innermost array, as a number when it is a string that reads as one
InfoValue(info_data) ==
    LET value == info_data.items[2].items[1].items[1]
    IN  IF value.t = "str" /\ ParseFloat(value.chars).ok
        THEN Num(ParseFloat(value.chars).n)
        ELSE value

C19_Topics ==
    \A i \in DOMAIN cyc.log :
      LET m == cyc.log[i]
      IN  /\ m.what = "value"
             => m.topic = [prefix |-> topic_prefix, device |-> m.device, key |-> m.key]
          /\ m.what = "discovery"
             => /\ m.topic = [prefix |-> ha_discovery_prefix, component |-> "sensor",
                               unique_id |-> m.unique_id, leaf |-> "config"]
                /\ m.state_topic = [prefix |-> topic_prefix, device |-> m.device,
                                     key |-> m.key]
                /\ \A j \in DOMAIN cyc.log :
                     (/\ cyc.log[j].what = "value"
                      /\ cyc.log[j].device = m.device
                      /\ cyc.log[j].key = m.key)
                     => cyc.log[j].topic = m.state_topic

C19_Witness ==
    /\ pc = "cycle_done"
    /\ \E i, j \in DOMAIN cyc.log :
         /\ i < j
         /\ cyc.log[i].what = "discovery"
         /\ cyc.log[j].what = "value"
         /\ cyc.log[i].device = "D2"
         /\ cyc.log[j].device = "D2"
         /\ cyc.log[i].key = cyc.log[j].key

\* the unique_id that the device identifier, the configured device name and
\* the sensor's display name determine
UniqueIdOf(d, configured_name, display_name) ==
    UniqueIdPrefix
    \o (IF configured_name # NoName THEN Slugified[configured_name] ELSE UidPrefix[d])
    \o <<"_">> \o Slugified[display_name]

\* C20: the unique_id and the topic of every discovery document are a
\* function of the device identifier, the configured device name and the
\* sensor's display name alone: whatever the dedup set, the cached slugs and
\* the cycles before hold, the same three give the same identifier.
C20_UniqueIdDeterministic ==
    /\ \A i \in DOMAIN cyc.log :
         LET m == cyc.log[i]
         IN  m.what = "discovery"
             => /\ m.unique_id = UniqueIdOf(m.device, device_name, m.name)
                /\ m.topic = DiscoveryTopic(ha_discovery_prefix,
                                  UniqueIdOf(m.device, device_name, m.name))
    /\ \A doc \in docs :
         \E k \in {doc.key} :
           doc.topic = UniqueIdOf(doc.device, device_name,
                           IF k \in DOMAIN SENSOR_DEFINITIONS
                           THEN SENSOR_DEFINITIONS[k].name ELSE RawKeyChars[k])

C20_Witness ==
    /\ pc = "cycle_done"
    /\ device_name # NoName
    /\ \E i \in DOMAIN cyc.log :
         /\ cyc.log[i].what = "discovery"
         /\ cyc.log[i].device = "D2"
         /\ "D1" \in DOMAIN _device_name_map
    /\ \E doc \in docs : \A i \in DOMAIN cyc.log : cyc.log[i].key # doc.key

\* a slug: lower-case ASCII letters and digits with single '_' separators
\* between them, no separator first, last or next to another
IsSlug(chars) ==
    /\ \A i \in DOMAIN chars : chars[i] \in SlugAlnum \cup {"_"}
    /\ chars # << >> => chars[1] # "_" /\ chars[Len(chars)] # "_"
    /\ \A i \in 1..(Len(chars) - 1) : ~(chars[i] = "_" /\ chars[i + 1] = "_")

C22_StopEndsLoop ==
    [][(pc \in LoopPositions /\ ~running)
       => /\ ~running'
          /\ cyc' # cyc => pc = "cycle_done" /\ cyc' = NewCycle
          /\ pc' # pc => <<pc, pc'>> \in {<<"cycle_done", "sleep">>, <<"tick", "sleep">>,
                                         <<"sleep", "loop">>, <<"loop", "shutdown">>}]_vars

\* the flag is cleared in the first second of a sleep of several seconds
C22_Witness ==
    /\ pc = "tick"
    /\ ~running
    /\ sleep_left > 1
    /\ sleep_left = poll_interval

\* C23: when the loop is left, run() stops the background loop of the bus
\* client, then disconnects, then returns: the client is connected once,
\* stopped once and disconnected once, in this order, run() has returned
\* exactly when the client is disconnected, and nothing is published after
\* the background loop is stopped.
C23_CleanShutdown ==
    /\ [](pc = "done" <=> mqtt_client = "disconnected")
    /\ [](pc = "shutdown" <=> mqtt_client = "loop_stopped")
    /\ [][/\ mqtt_client' # mqtt_client
              => <<mqtt_client, mqtt_client'>> \in
                   {<<"None", "connected">>, <<"connected", "loop_stopped">>,
                    <<"loop_stopped", "disconnected">>}
          /\ (pc \in LoopPositions /\ pc' \notin LoopPositions) => pc' = "shutdown"
          /\ pc = "shutdown" /\ pc' # pc => pc' = "done"
          /\ pc = "done" => pc' = "done"
          /\ mqtt_client \in {"loop_stopped", "disconnected"}
              => UNCHANGED <<docs, orphans, republished, sentinels, hidden,
                             _discovery_published, cyc>>]_vars

\* run() has returned after cycles that published discovery documents
C23_Witness ==
    /\ pc = "done"
    /\ mqtt_client = "disconnected"
    /\ docs # {}
    /\ ~running

\* C24: when the login of the initial set-up raises, the exception leaves
\* run(): no bus connection is made, nothing is published and no poll cycle
\* runs, then or later. When the re-login inside a poll cycle raises, the
\* cycle returns normally and run() stays in its loop.
C24_InitialLoginFatal ==
    /\ [](pc = "crashed"
          => /\ mqtt_client = "None"
             /\ docs = {} /\ orphans = {} /\ _discovery_published = {}
             /\ cyc = NewCycle)
    /\ [][/\ (pc = "setup" /\ pc' # pc /\ ~econet_client'.logged_in)
              => pc' = "crashed" /\ mqtt_client' = "None"
          /\ pc = "crashed" => pc' = "crashed" /\ mqtt_client' = "None" /\ cyc' = cyc
          /\ (pc = "loop" /\ cyc'.relogin_failed) => pc' = "cycle_done"
          /\ (pc = "cycle_done" /\ cyc.relogin_failed /\ pc' # pc) => pc' = "sleep"]_vars

\* the initial login raised and run() was left by its exception
C24_Witness ==
    /\ pc = "crashed"
    /\ ~econet_client.logged_in
    /\ running

\* a variable of the environment that is missing or empty
NotGiven(value) == value = EnvUnset \/ Len(value.chars) = 0

\* C25: when ECONET24_USERNAME or ECONET24_PASSWORD is not set or empty,
\* main() exits with status 1 before a bridge runs: no login, no bus
\* connection and no poll cycle happen, then or later.
C25_MissingCredentialsExit ==
    /\ [](pc = "exit_1"
          => /\ NotGiven(econet_username) \/ NotGiven(econet_password)
             /\ Constructed)
    /\ [][/\ (pc = "main" /\ (NotGiven(econet_username) \/ NotGiven(econet_password)))
              => pc' = "exit_1"
          /\ pc = "exit_1" => pc' = "exit_1"]_vars

\* main() has exited because the password is the empty text
C25_Witness ==
    /\ pc = "exit_1"
    /\ ~NotGiven(econet_username)
    /\ econet_password = EnvValue(<< >>)

\* C26: a stop request made through the signal handler once main() has
\* registered it stays in effect: the running flag it cleared is not set
\* again, so that the loop ends and run() returns.
C26_StopNeverLost ==
    [][(pc \in {"start_stopped", "setup", "shutdown"} \cup LoopPositions /\ ~running)
       => ~running']_vars

\* C27: when login() returns without raising, in the initial set-up or in
\* the re-login of a poll cycle, the client passes its local session check.
C27_LoginPassesSessionCheck ==
    [][(\/ pc = "setup" /\ econet_client'.logged_in
        \/ pc = "loop" /\ cyc'.relogins > 0 /\ ~cyc'.relogin_failed)
       => SessionCheckPasses(econet_client')]_vars

\* C28: a data-fetch operation called on a client that is not logged in, or
\* whose jar holds none of the session cookies, raises the session-expired
\* error and sends no request; and a poll cycle in which the fetch of a
\* device raised it is handled by the re-login handler.
C28_FetchNeedsSession ==
    /\ (/\ fetched # NoFetch
        /\ \/ ~econet_client.logged_in
           \/ econet_client.cookies \cap {"_mlmsc", "_mlmlc", "sessionid"} = {})
       => fetched.exc = "SessionExpiredError" /\ fetched.requests = 0
    /\ (pc = "cycle_done" /\ \E d \in Devices : cyc.primary[d] = "SessionExpiredError")
       => cyc.handler = "Econet24Error" /\ cyc.relogins = 1

\* get_history was called on a client that is marked logged in and holds
\* only the CSRF cookie
C28_Witness ==
    /\ fetched.op = "get_history"
    /\ econet_client.logged_in
    /\ econet_client.cookies = {"csrftoken"}
    /\ fetched.exc = "SessionExpiredError"

\* C29: a sensor key is in the dedup set only if a discovery publish for it
\* has returned; when the discovery publish of a key raises, the key stays
\* out of the dedup set, no value of the key is published in that cycle,
\* and the next cycle that observes the key attempts its discovery again.
C29_DedupAfterPublish ==
    /\ [](\A k \in _discovery_published : \E doc \in docs : doc.key = k)
    /\ [](\A k \in cyc.failed :
            /\ k \notin _discovery_published
            /\ \A d \in Devices : <<d, k>> \notin cyc.values)
    /\ [][\A k \in DOMAIN failed_discovery :
            k \in cyc'.observed => k \in cyc'.attempted]_vars

\* the discovery publish of a key has raised in an earlier cycle and again
\* in the cycle that has just returned
C29_Witness ==
    /\ pc = "cycle_done"
    /\ \E k \in cyc.failed : FailedCount(failed_discovery, k) >= 2

\* C30: with the bus callbacks running between any two steps of run(), the
\* dedup set and the slug cache only grow and change only in a poll cycle,
\* as do the published documents and the log of publishes; the running flag
\* is set only by the first statement of run(); and the session client
\* changes only in the set-up, in a poll cycle, or by its cookies expiring.
C30_CallbacksInert ==
    [][/\ _discovery_published \subseteq _discovery_published'
       /\ \A d \in DOMAIN _device_name_map :
            d \in DOMAIN _device_name_map' /\ _device_name_map'[d] = _device_name_map[d]
       /\ <<_discovery_published, _device_name_map, docs, orphans>>'
              # <<_discovery_published, _device_name_map, docs, orphans>>
          => pc = "loop" /\ running /\ pc' = "cycle_done"
       /\ cyc' # cyc
          => \/ pc = "loop" /\ running /\ pc' = "cycle_done"
             \/ pc = "cycle_done" /\ pc' = "sleep" /\ cyc' = NewCycle
       /\ (running' /\ ~running) => pc' = "setup"
       /\ econet_client' # econet_client
          => \/ pc = "setup"
             \/ pc = "loop" /\ pc' = "cycle_done"
             \/ econet_client' = [econet_client EXCEPT !.cookies = {}]]_vars

\* the bus client is connected, so that its callbacks run, while the dedup
\* set and the slug cache hold entries and run() sleeps between two cycles
C30_Witness ==
    /\ mqtt_client = "connected"
    /\ pc = "tick"
    /\ running
    /\ _discovery_published # {}
    /\ DOMAIN _device_name_map # {}
    /\ SessionCheckPasses(econet_client)

\* the `data` map a device's secondary fetch returned this cycle
EditableBlock(d) ==
    IF cyc.secondary[d] \in EditableIds THEN EditablePayload[cyc.secondary[d]].data
    ELSE << >>

\* C31: every publish caused by the editable parameters is for an entry of
\* the payload whose name is in the allow-list and whose value is not null;
\* every name of the allow-list is in the catalog; and a discovery document
\* of the device's sensor has been published before each such value.
C31_EditableAllowList ==
    /\ wanted_editable \subseteq DOMAIN SENSOR_DEFINITIONS
    /\ \A i \in DOMAIN cyc.log :
         LET m == cyc.log[i]
         IN  m.path = "editable"
             => /\ m.key \in wanted_editable
                /\ ~IsNone(m.value)
                /\ \E j \in DOMAIN EditableBlock(m.device) :
                     /\ EditableBlock(m.device)[j].v.t = "obj"
                     /\ EditableBlock(m.device)[j].v.name = m.key
                     /\ EditableBlock(m.device)[j].v.value = m.value
                /\ m.what = "value"
                   => \E doc \in docs : doc.device = m.device /\ doc.key = m.key

\* C32: a slug, once cached for a device, is neither removed nor changed by
\* any step; and the cached slug of a device is slugify(device_name) when a
\* device name is configured and otherwise the first eight characters of
\* the device identifier in lower case, which is also what every discovery
\* document of the device is built from.
C32_SlugMemoized ==
    /\ [](\A d \in DOMAIN _device_name_map :
            _device_name_map[d] = IF device_name # NoName THEN slugify(device_name)
                                  ELSE Lower(Take(DeviceUidChars[d], 8)))
    /\ [](\A i \in DOMAIN cyc.log :
            cyc.log[i].what = "discovery"
            => /\ cyc.log[i].device \in DOMAIN _device_name_map
               /\ cyc.log[i].unique_id =
                    UniqueIdPrefix \o _device_name_map[cyc.log[i].device] \o <<"_">>
                    \o slugify(cyc.log[i].name))
    /\ [][\A d \in DOMAIN _device_name_map :
            d \in DOMAIN _device_name_map' /\ _device_name_map'[d] = _device_name_map[d]]_vars

\* the slugs of both devices are cached, and the cycle that has just
\* returned logged in again
C32_Witness ==
    /\ pc = "cycle_done"
    /\ cyc.relogins > 0
    /\ DOMAIN _device_name_map = Devices

\* C33: the configured interval is at least 1, and run() leaves the sleep
\* loop with the running flag set, to start the next cycle, only after it
\* has slept the seconds of the interval, which is at least one.
C33_CyclesSeparated ==
    [][(pc = "sleep" /\ pc' = "loop" /\ running')
       => (sleep_left = 0 /\ poll_interval >= 1)]_vars

\* C34: an entry of informationParams whose outer structure does not have
\* exactly two elements causes no discovery and no value publish for its
\* sensor key.
C34_TwoElementsOnly ==
    \A d \in Devices : \A i \in SeenEntries(d) :
      LET entry == InfoBlock(d)[i]
      IN  (/\ entry.k \in DOMAIN INFORMATION_PARAMS_MAP
           /\ ~(entry.v.t = "list" /\ Len(entry.v.items) = 2))
          => /\ InfoMessages(d, INFORMATION_PARAMS_MAP[entry.k], "discovery") = {}
             /\ InfoMessages(d, INFORMATION_PARAMS_MAP[entry.k], "value") = {}

\* C35: for every DEVICE_NAME setting (not set, empty, only blanks, only
\* punctuation, or a name) and every device, the prefix the package
\* generator computes is the slug the bridge computes for the device.
C35_PrefixEqualsSlug ==
    (device_prefix.calls = 2)
    => /\ device_prefix.package.ok
       /\ device_prefix.package.prefix = device_prefix.bridge.slug
       /\ _device_name_map[device_prefix.device] = device_prefix.package.prefix

\* both have computed it for a name of punctuation between blanks, whose
\* slug is empty
C35_Witness ==
    /\ device_prefix.calls = 2
    /\ device_prefix.name = EnvValue(<<" ", "-", "-", " ">>)
    /\ device_prefix.bridge.slug = << >>
    /\ device_prefix.package.ok

\* C36: when login() raises, the client's logged-in flag and its cached
\* device list are what they were before the call.
C36_FailedLoginFrame ==
    (login_call.calls = 1 /\ login_call.exc # "none")
    => /\ econet_client.logged_in = login_call.before.logged_in
       /\ econet_client.devices = login_call.before.devices

\* the session cookies the jar holds after the login exchange
JarAfterLogin == login_call.before.cookies \cup login_call.answer.cookies

\* login() took one of its two success branches: the redirect named a
\* device, or the jar holds one of the cloud's own session cookies
LoginVerified ==
    \/ login_call.answer.kind = "redirect"
    \/ /\ login_call.answer.kind = "no_redirect"
       /\ JarAfterLogin \cap {"_mlmsc", "_mlmlc"} # {}

\* C37: after a login that returned, the device list is the account's list
\* when the user-devices call was made with a session and returned a
\* non-empty list, otherwise the device of the redirect, otherwise the list
\* the client had; and when the user-devices call fails, login() returns
\* exactly when it would have without the call.
C37_DeviceListAfterLogin ==
    login_call.calls = 1
    => /\ login_call.exc = "none"
          => econet_client.devices =
               IF /\ login_call.answer.user_devices = "list"
                  /\ JarAfterLogin \cap {"_mlmsc", "_mlmlc", "sessionid"} # {}
               THEN AccountDevices(account)
               ELSE IF login_call.answer.kind = "redirect" THEN <<RedirectDevice>>
               ELSE login_call.before.devices
       /\ (\/ login_call.answer.user_devices = "fail"
           \/ JarAfterLogin \cap {"_mlmsc", "_mlmlc", "sessionid"} = {})
          => (login_call.exc = "none" <=> LoginVerified)

\* a login that returned although its user-devices request failed, on a
\* client that had a device list and was not redirected
C37_Witness ==
    /\ login_call.calls = 1
    /\ login_call.exc = "none"
    /\ login_call.answer.user_devices = "fail"
    /\ login_call.answer.kind = "no_redirect"
    /\ login_call.before.devices # << >>
    /\ econet_client.devices = login_call.before.devices

====
